---- MODULE Spec2Model ----
(***************************************************************************)
(* A model of the weather-alert server: the weather gateway                 *)
(* (TomorrowWeatherProvider: cache, in-flight map, rate-limit cooldown,     *)
(* retry loop, wrapped in CircuitBreaker.execute), the circuit breaker on   *)
(* its own, and the alert evaluation paths (the event-driven use case and   *)
(* the cron scheduler).                                                      *)
(*                                                                           *)
(* Time is counted in units of 30 seconds (the greatest common divisor of    *)
(* the four durations the code uses: 30s, 60s, 60s, 300s). The code keeps    *)
(* absolute timestamps and only ever compares their distance to Date.now();  *)
(* the model keeps those distances (time left, or time since), each          *)
(* saturating at the value past which no comparison in the code changes.     *)
(* The provider is modelled as constructed without REDIS_URL, so this.redis  *)
(* is null and the synchronous prefix of getRealtime has no suspension.      *)
(*                                                                           *)
(* The specifications share the variables: Spec (the gateway), SpecBreaker  *)
(* (the breaker under any operations), SpecEvents (the Kafka-driven          *)
(* evaluation of alerts) and SpecSweep (the cron sweep).  Each leaves the    *)
(* variables of the others at their initial values.                          *)
(***************************************************************************)
EXTENDS Integers, Sequences, FiniteSets, TLC

\* ------------------------------------------------------------------------
\* Bounds of the model
\* ------------------------------------------------------------------------
NumCallers == 2
MaxFailureCount == 4
MaxObservations == 2
MaxSweeps == 2
MaxRunning == 2
MaxEvalValue == 2

\* ------------------------------------------------------------------------
\* Program constants (durations in units of 30s)
\* ------------------------------------------------------------------------
CacheTtl == 10
CooldownPeriod == 2
MaxAttempts == 4
FailureThreshold == 3
RecoveryTimeout == 1
MonitoringPeriod == 2
MinimumRequests == 2

\* ------------------------------------------------------------------------
\* Values
\* ------------------------------------------------------------------------
\* A number|null field holds an integer or NullNum.
NullNum == -999

Min(a, b) == IF a < b THEN a ELSE b
Max(a, b) == IF a > b THEN a ELSE b

Callers == 1..NumCallers

\* Coordinates are held in units of 0.0001 degree, so that rounding to three
\* decimals is a real computation. Two of the three latitudes round to the
\* same third decimal.
Latitudes == {423601, 423604, 423611}
Longitudes == {-710589}
Locations == [lat : Latitudes, lon : Longitudes]

\* Number.prototype.toFixed(3) on a value given in 0.0001 degrees: the
\* nearest multiple of 0.001, in units of 0.001.
toFixed3(x) == IF x >= 0 THEN (x + 5) \div 10 ELSE 0 - ((5 - x) \div 10)

\* const key = `${latitude.toFixed(3)},${longitude.toFixed(3)},${this.units}`
\* (units is fixed for one provider instance).
KeyOf(loc) == <<toFixed3(loc.lat), toFixed3(loc.lon)>>

Keys == {KeyOf(l) : l \in Locations}

\* RealtimeWeatherData: the three readings and what `raw` says about origin.
UpstreamReadings ==
    { [temperatureC |-> t, windSpeedMps |-> 3, precipitationMmHr |-> 0, raw |-> "upstream"]
        : t \in {NullNum, 25} }

\* The synthetic readings built from Math.random(); raw.message tells the
\* two places apart.
DemoReadings(msg) ==
    { [temperatureC |-> t, windSpeedMps |-> 5, precipitationMmHr |-> 0, raw |-> msg]
        : t \in {20, 35} }

NoReading == [temperatureC |-> NullNum, windSpeedMps |-> NullNum,
              precipitationMmHr |-> NullNum, raw |-> "none"]

IsDemo(v) == v.raw \in {"demo-cooldown", "demo-rate-limited"}

\* error?.response?.status: 0 stands for "no response" (timeout, network).
Statuses == {0, 401, 429, 503}

\* const isRetryable = status === 429 || (status >= 500 && status < 600)
isRetryableAlways(status) == TRUE

isRetryable(status) == status = 429 \/ (status >= 500 /\ status < 600)

\* if (!isRetryable || attempt === maxAttempts)
GivesUp(status, attempt) == ~isRetryable(status) \/ attempt = MaxAttempts

\* A give-up branch without the 429 case.
IsRateLimitNever(status) == FALSE

\* if (status === 429) inside the give-up branch
IsRateLimit(status) == status = 429

\* What a caller of getRealtime is handed. `via` is the place in getRealtime
\* that produced it, `status` the HTTP status the retry loop ended on (200
\* for a response that was mapped), `limited` whether the call was made
\* while now < rateLimitResetTime, `key` the cache key of the call (line 46).
NoKey == <<0, 0>>
NoResult == [kind |-> "none", value |-> NoReading, status |-> 0, via |-> "none",
             limited |-> FALSE, key |-> NoKey]
DataResult(v, via, status) ==
    [kind |-> "data", value |-> v, status |-> status, via |-> via, limited |-> FALSE,
     key |-> NoKey]
HttpError(s) ==
    [kind |-> "http-error", value |-> NoReading, status |-> s, via |-> "loop",
     limited |-> FALSE, key |-> NoKey]
CircuitOpenError ==
    [kind |-> "circuit-open", value |-> NoReading, status |-> 0, via |-> "breaker",
     limited |-> FALSE, key |-> NoKey]

\* ------------------------------------------------------------------------
\* State
\* ------------------------------------------------------------------------
VARIABLES
    cache,              \* TomorrowWeatherProvider.cache: key -> entry (ttlLeft = expiresAt - now)
    inFlight,           \* TomorrowWeatherProvider.inFlight: key -> owner of the promise, 0 = absent
    cooldownLeft,       \* TomorrowWeatherProvider.rateLimitResetTime - now, 0 once passed
    breaker,            \* TomorrowWeatherProvider.circuitBreaker
    prod,               \* the retry loop started by each caller (the promise it registered)
    callers,            \* each getRealtime caller: idle, or waiting on a promise
    delivered           \* what the last step handed to each caller

gatewayVars == <<cache, inFlight, cooldownLeft, breaker, prod, callers, delivered>>

VARIABLES
    alertCfg,           \* the stored alerts: the columns that evaluation never writes
    alertStore,         \* the stored alerts: lastState, lastValue
    weatherTopic,       \* Kafka topic weather-updates, not yet consumed
    observed,           \* how many weather events have been published
    cons,               \* the weather consumers (group alert-evaluators), one handler each
    evalTopic,          \* Kafka topic alert-evaluations, not yet consumed
    notified,           \* Kafka topic notifications: events published per alert
    sched,              \* the cron callback of AlertEvaluationScheduler
    sweeps,             \* how many times the cron callback has run
    sent,               \* INotificationGateway: messages sent per alert and channel
    hist                \* history: per alert, the evaluations and writes that changed its state

engineVars == <<alertCfg, alertStore, weatherTopic, observed, cons, evalTopic,
                notified, sched, sweeps, sent, hist>>

VARIABLES
    running,            \* the circuit breaker on its own: operations admitted and not settled
    lastCall,           \* the circuit breaker on its own: what the last step did to a call
    retryIn,            \* the circuit breaker on its own: how far ahead the retry time of the last rejection lies
    trial,              \* history: the call that moved the breaker to HALF_OPEN
    sinceTrialFailure,  \* history: how long ago a trial call failed in HALF_OPEN
    failureAges,        \* history: how long ago the latest failures were recorded
    failuresSince       \* history: failures recorded since the last success, up to failureThreshold

callVars == <<running, lastCall, retryIn, trial, sinceTrialFailure, failureAges,
              failuresSince>>

VARIABLES
    request,            \* EventDrivenWeatherProvider.getRealtime: where each caller's call stands
    publishing,         \* the producer.send() started by each caller's last call and not settled
    isConnected,        \* KafkaService.isConnected
    handed              \* what the last step returned to each caller of the event-driven provider

publishVars == <<request, publishing, isConnected, handed>>

VARIABLES
    evalArgs,           \* evaluateAlertCondition on its own: the arguments of the evaluation looked at
    evalPc,             \* whether it has been evaluated, and evaluated again
    evalResult,         \* what its first evaluation returned
    evalAgain,          \* what its second evaluation returned
    lastResult,         \* what the latest evaluation of any arguments returned
    between             \* history: other arguments were evaluated after the first evaluation

VARIABLES
    matchRows,          \* findAlertsForLocation on its own: the coordinates of the stored alerts
    matchAt,            \* the coordinates of the observation
    matchPc,            \* whether the matcher has run
    matched             \* the alerts it returned

matchVars == <<matchRows, matchAt, matchPc, matched>>

VARIABLES
    table,              \* PrismaAlertRepository on its own: the rows of the alert table, newest first
    response            \* what the last call of the repository or of the controller returned

repositoryVars == <<table, response>>

evalVars == <<evalArgs, evalPc, evalResult, evalAgain, lastResult, between, matchVars,
              repositoryVars>>

vars == <<gatewayVars, engineVars, callVars, publishVars, evalVars>>

\* The circuit breaker on its own has run no call.
NoCalls ==
    /\ running = 0
    /\ lastCall = "none"
    /\ retryIn = 0
    /\ trial = "none"
    /\ sinceTrialFailure = RecoveryTimeout
    /\ failureAges = <<>>
    /\ failuresSince = 0

\* ------------------------------------------------------------------------
\* CircuitBreaker (shared/utils)
\* ------------------------------------------------------------------------
\* sinceWindowStart = now - windowStart, sinceLastFailure = now - lastFailureTime.
\* lastFailureTime starts at 0, which is further back than any timeout.
WindowCap == MonitoringPeriod + 1

CircuitBreakerInit ==
    [state |-> "CLOSED", failureCount |-> 0, requestCount |-> 0,
     sinceWindowStart |-> 0, sinceLastFailure |-> RecoveryTimeout]

\* Date.now() - this.lastFailureTime >= this.config.recoveryTimeout
shouldAttemptReset(b) == b.sinceLastFailure >= RecoveryTimeout

resetCounters(b) ==
    [b EXCEPT !.failureCount = 0, !.requestCount = 0, !.sinceWindowStart = 0]

\* The synchronous head of execute(): TRUE when the call is thrown out.
executeRejectsNever(b) == FALSE

executeRejects(b) == b.state = "OPEN" /\ ~shouldAttemptReset(b)

\* The breaker after the head of execute() has let a call in.
executeAdmit(b) ==
    IF b.state = "OPEN" /\ shouldAttemptReset(b)
    THEN [b EXCEPT !.state = "HALF_OPEN"]
    ELSE b

onSuccess(b) ==
    LET r == resetCounters(b)
    IN  IF r.state = "HALF_OPEN" THEN [r EXCEPT !.state = "CLOSED"] ELSE r

\* shouldOpenCircuit() both answers and, past the window, resets.
onFailureLeavesHalfOpen(b) ==
    LET b1 == [b EXCEPT !.failureCount = @ + 1, !.requestCount = @ + 1,
                        !.sinceLastFailure = 0]
    IN  IF b1.state = "HALF_OPEN" THEN b1
        ELSE IF b1.sinceWindowStart > MonitoringPeriod
             THEN resetCounters(b1)
        ELSE IF b1.requestCount >= MinimumRequests
                /\ b1.failureCount >= FailureThreshold
             THEN [b1 EXCEPT !.state = "OPEN"]
        ELSE b1

\* A breaker that a single failure opens.
onFailureTripsAtOnce(b) ==
    [b EXCEPT !.failureCount = @ + 1, !.requestCount = @ + 1,
              !.sinceLastFailure = 0, !.state = "OPEN"]

onFailure(b) ==
    LET b1 == [b EXCEPT !.failureCount = @ + 1, !.requestCount = @ + 1,
                        !.sinceLastFailure = 0]
    IN  IF b1.state = "HALF_OPEN" THEN [b1 EXCEPT !.state = "OPEN"]
        ELSE IF b1.sinceWindowStart > MonitoringPeriod
             THEN resetCounters(b1)
        ELSE IF b1.requestCount >= MinimumRequests
                /\ b1.failureCount >= FailureThreshold
             THEN [b1 EXCEPT !.state = "OPEN"]
        ELSE b1

\* One unit of time passes over a breaker.
BreakerTick(b) ==
    [b EXCEPT !.sinceWindowStart = Min(@ + 1, WindowCap),
              !.sinceLastFailure = Min(@ + 1, RecoveryTimeout)]

\* ------------------------------------------------------------------------
\* TomorrowWeatherProvider.getRealtime
\* ------------------------------------------------------------------------
NoEntry == [present |-> FALSE, value |-> NoReading, ttlLeft |-> 0]

\* this.cache.set(key, { value, expiresAt: Date.now() + this.cacheTtlMs })
Entry(v) == [present |-> TRUE, value |-> v, ttlLeft |-> CacheTtl]

\* A lookup that never finds the entry.
CacheHitStale(k) == cache[k].present

CacheHitNever(k) == FALSE

\* const hit = this.cache.get(key); if (hit && hit.expiresAt > now)
CacheHit(k) == cache[k].present /\ cache[k].ttlLeft > 0

\* A lookup that never finds the registered promise.
InFlightHitNever(k) == FALSE

\* const existing = this.inFlight.get(key); if (existing) return existing;
InFlightHit(k) == inFlight[k] # 0

\* if (now < this.rateLimitResetTime)
RateLimitedNever == FALSE

RateLimited == cooldownLeft > 0

\* `status` is the status of the response the loop is backing off from
\* (line 120), 0 when it is not backing off.
NoProd == [active |-> FALSE, key |-> NoKey, attempt |-> 0, phase |-> "none",
           status |-> 0]

IdleCaller == [pc |-> "idle", joined |-> 0, limited |-> FALSE]

Nothing == [c \in Callers |-> NoResult]

Hand(c, k, r) == [Nothing EXCEPT ![c] = [r EXCEPT !.limited = RateLimited, !.key = k]]

\* Line 54: a fresh cache entry is returned as is.
CallCacheHit(c, loc) ==
    LET k == KeyOf(loc) IN
    /\ callers[c].pc = "idle"
    /\ CacheHit(k)
    /\ delivered' = Hand(c, k, DataResult(cache[k].value, "cache", 0))
    /\ UNCHANGED <<cache, inFlight, cooldownLeft, breaker, prod, callers>>
    /\ UNCHANGED <<engineVars, callVars, publishVars, evalVars>>

\* Line 58: the promise already registered for the key is returned.
CallJoin(c, loc) ==
    LET k == KeyOf(loc) IN
    /\ callers[c].pc = "idle"
    /\ ~CacheHit(k)
    /\ InFlightHit(k)
    /\ callers' = [callers EXCEPT ![c] = [pc |-> "wait", joined |-> inFlight[k],
                                          limited |-> RateLimited]]
    /\ delivered' = Nothing
    /\ UNCHANGED <<cache, inFlight, cooldownLeft, breaker, prod>>
    /\ UNCHANGED <<engineVars, callVars, publishVars, evalVars>>

\* Lines 61-79: during the cooldown a synthetic reading is cached and returned.
CallCooldown(c, loc) ==
    LET k == KeyOf(loc) IN
    /\ callers[c].pc = "idle"
    /\ ~CacheHit(k)
    /\ ~InFlightHit(k)
    /\ RateLimited
    /\ \E m \in DemoReadings("demo-cooldown") :
          /\ cache' = [cache EXCEPT ![k] = Entry(m)]
          /\ delivered' = Hand(c, k, DataResult(m, "cooldown", 0))
    /\ UNCHANGED <<inFlight, cooldownLeft, breaker, prod, callers>>
    /\ UNCHANGED <<engineVars, callVars, publishVars, evalVars>>

\* Lines 88, 165-170 with execute() throwing at once: the rejected promise is
\* registered and removed again by its finally() before anything else runs.
CallRejected(c, loc) ==
    LET k == KeyOf(loc) IN
    /\ callers[c].pc = "idle"
    /\ ~CacheHit(k)
    /\ ~InFlightHit(k)
    /\ ~RateLimited
    /\ executeRejects(breaker)
    /\ delivered' = Hand(c, k, CircuitOpenError)
    /\ UNCHANGED <<cache, inFlight, cooldownLeft, breaker, prod, callers>>
    /\ UNCHANGED <<engineVars, callVars, publishVars, evalVars>>

\* Lines 88-97, 165-170: the breaker lets the call in, the retry loop issues
\* its first HTTP request, and the promise is registered under the key.
CallStart(c, loc) ==
    LET k == KeyOf(loc) IN
    /\ callers[c].pc = "idle"
    /\ ~CacheHit(k)
    /\ ~InFlightHit(k)
    /\ ~RateLimited
    /\ ~executeRejects(breaker)
    /\ breaker' = executeAdmit(breaker)
    /\ prod' = [prod EXCEPT ![c] = [active |-> TRUE, key |-> k, attempt |-> 1,
                                    phase |-> "http", status |-> 0]]
    /\ inFlight' = [inFlight EXCEPT ![k] = c]
    /\ callers' = [callers EXCEPT ![c] = [pc |-> "wait", joined |-> c,
                                          limited |-> FALSE]]
    /\ delivered' = Nothing
    /\ UNCHANGED <<cache, cooldownLeft>>
    /\ UNCHANGED <<engineVars, callVars, publishVars, evalVars>>

\* A settlement that reaches only the caller that started the loop.
SettleOwnerOnly(p, outcome) ==
    /\ callers' = [callers EXCEPT ![p] = IdleCaller]
    /\ delivered' = [Nothing EXCEPT ![p] = [outcome EXCEPT !.limited = callers[p].limited,
                                                          !.key = prod[p].key]]

\* The promise of producer p settles: every caller holding it gets its outcome.
Settle(p, outcome) ==
    /\ callers' = [c \in Callers |->
                     IF callers[c].pc = "wait" /\ callers[c].joined = p
                     THEN IdleCaller ELSE callers[c]]
    /\ delivered' = [c \in Callers |->
                       IF callers[c].pc = "wait" /\ callers[c].joined = p
                       THEN [outcome EXCEPT !.limited = callers[c].limited,
                                            !.key = prod[p].key]
                       ELSE NoResult]

\* A return of the loop that the breaker does not record.
FulfilUnrecorded(p, v, status) ==
    /\ UNCHANGED breaker
    /\ inFlight' = [inFlight EXCEPT ![prod[p].key] = 0]
    /\ prod' = [prod EXCEPT ![p] = NoProd]
    /\ Settle(p, DataResult(v, "loop", status))

\* The loop returns a value: execute() runs onSuccess(), finally() clears the key.
Fulfil(p, v, status) ==
    /\ breaker' = onSuccess(breaker)
    /\ inFlight' = [inFlight EXCEPT ![prod[p].key] = 0]
    /\ prod' = [prod EXCEPT ![p] = NoProd]
    /\ Settle(p, DataResult(v, "loop", status))

\* A rejection without the finally(): the key stays registered.
RejectKeepsMarker(p, status) ==
    /\ breaker' = onFailure(breaker)
    /\ UNCHANGED inFlight
    /\ prod' = [prod EXCEPT ![p] = NoProd]
    /\ Settle(p, HttpError(status))

\* The loop throws: execute() runs onFailure(), finally() clears the key.
Reject(p, status) ==
    /\ breaker' = onFailure(breaker)
    /\ inFlight' = [inFlight EXCEPT ![prod[p].key] = 0]
    /\ prod' = [prod EXCEPT ![p] = NoProd]
    /\ Settle(p, HttpError(status))

\* Lines 98-118: a 2xx response is mapped, cached and returned.
HttpOk(p) ==
    /\ prod[p].active /\ prod[p].phase = "http"
    /\ \E v \in UpstreamReadings :
          /\ cache' = [cache EXCEPT ![prod[p].key] = Entry(v)]
          /\ Fulfil(p, v, 200)
    /\ UNCHANGED <<cooldownLeft>>
    /\ UNCHANGED <<engineVars, callVars, publishVars, evalVars>>

\* Lines 124-145: the attempts end on a 429: cooldown, synthetic reading.
HttpRateLimitExhausted(p, status) ==
    /\ prod[p].active /\ prod[p].phase = "http"
    /\ GivesUp(status, prod[p].attempt)
    /\ IsRateLimit(status)
    /\ cooldownLeft' = CooldownPeriod
    /\ \E m \in DemoReadings("demo-rate-limited") :
          /\ cache' = [cache EXCEPT ![prod[p].key] = Entry(m)]
          /\ Fulfil(p, m, status)
    /\ UNCHANGED <<engineVars, callVars, publishVars, evalVars>>

\* Lines 124, 147: a failure that is not retried is thrown.
HttpThrow(p, status) ==
    /\ prod[p].active /\ prod[p].phase = "http"
    /\ GivesUp(status, prod[p].attempt)
    /\ ~IsRateLimit(status)
    /\ breaker.failureCount < MaxFailureCount
    /\ Reject(p, status)
    /\ UNCHANGED <<cache, cooldownLeft>>
    /\ UNCHANGED <<engineVars, callVars, publishVars, evalVars>>

\* Lines 150-160: a retryable failure before the last attempt: back off.
HttpRetry(p, status) ==
    /\ prod[p].active /\ prod[p].phase = "http"
    /\ ~GivesUp(status, prod[p].attempt)
    /\ prod' = [prod EXCEPT ![p].phase = "backoff", ![p].status = status]
    /\ delivered' = Nothing
    /\ UNCHANGED <<cache, inFlight, cooldownLeft, breaker, callers>>
    /\ UNCHANGED <<engineVars, callVars, publishVars, evalVars>>

\* A loop that repeats the attempt without counting it.
BackoffDoneSameAttempt(p) ==
    /\ prod[p].active /\ prod[p].phase = "backoff"
    /\ prod' = [prod EXCEPT ![p].phase = "http", ![p].status = 0]
    /\ delivered' = Nothing
    /\ UNCHANGED <<cache, inFlight, cooldownLeft, breaker, callers>>
    /\ UNCHANGED <<engineVars, callVars, publishVars, evalVars>>

\* Lines 160, 91-93: the delay is over, the next attempt is issued.
BackoffDone(p) ==
    /\ prod[p].active /\ prod[p].phase = "backoff"
    /\ prod' = [prod EXCEPT ![p].phase = "http", ![p].attempt = @ + 1,
                            ![p].status = 0]
    /\ delivered' = Nothing
    /\ UNCHANGED <<cache, inFlight, cooldownLeft, breaker, callers>>
    /\ UNCHANGED <<engineVars, callVars, publishVars, evalVars>>

\* 30 seconds pass. An entry whose time is up is never read again
\* (line 54), so its value is dropped from the state.
ExpireOrAge(e) ==
    IF ~e.present THEN e
    ELSE IF e.ttlLeft <= 1 THEN [present |-> TRUE, value |-> NoReading, ttlLeft |-> 0]
    ELSE [e EXCEPT !.ttlLeft = @ - 1]

Tick ==
    /\ cache' = [k \in Keys |-> ExpireOrAge(cache[k])]
    /\ cooldownLeft' = Max(cooldownLeft - 1, 0)
    /\ breaker' = BreakerTick(breaker)
    /\ delivered' = Nothing
    /\ UNCHANGED <<inFlight, prod, callers>>
    /\ UNCHANGED <<engineVars, callVars, publishVars, evalVars>>

GatewayInit ==
    /\ cache = [k \in Keys |-> NoEntry]
    /\ inFlight = [k \in Keys |-> 0]
    /\ cooldownLeft = 0
    /\ breaker = CircuitBreakerInit
    /\ prod = [c \in Callers |-> NoProd]
    /\ callers = [c \in Callers |-> IdleCaller]
    /\ delivered = Nothing

\* ------------------------------------------------------------------------
\* Alert evaluation: the records and the pure functions
\* ------------------------------------------------------------------------
\* An absent member of a JavaScript object (undefined), as distinct from null.
Undefined == -998

\* AlertRecord.id, in the order findMany returns the rows.
AlertOrder == <<"a1", "a2">>

Alerts == {AlertOrder[i] : i \in DOMAIN AlertOrder}

\* AlertRecord.parameter as the type declares it.
TypedParameters == {"TEMPERATURE"}

\* The spelling of the parameter in a stored row.  The rows are cast to
\* AlertRecord unchecked and evaluateAlertWithEvent takes alert: any; the
\* model lets a row carry the declared spelling or the one that
\* extractWeatherValue switches on.
StoredParameters == TypedParameters \cup {"temperature"}

\* The columns of an alert that no evaluation writes.  Coordinates are in
\* units of 0.0001 degree.
AlertConfig(parameter, operator) ==
    [parameter |-> parameter, operator |-> operator, threshold |-> 30,
     latitude |-> 423601, longitude |-> -710589,
     contactEmail |-> TRUE, contactPhone |-> FALSE]

TypedConfig == AlertConfig("TEMPERATURE", "GT")

AlertConfigs == {TypedConfig, AlertConfig("temperature", "NE")}

\* lastState is boolean | null.
BoolStr(b) == IF b THEN "true" ELSE "false"

NeverEvaluated == [lastState |-> "null", lastValue |-> NullNum]

\* What RealtimeWeatherData the gateway can hand to a caller: a reading of
\* the upstream, with or without a temperature, or a synthetic one.
Readings ==
    UpstreamReadings
        \cup {m \in DemoReadings("demo-cooldown") : m.temperatureC = 35}

\* Where weather events are published for: two points within 0.01 degree
\* of the alerts and one that is not.
EventLocations ==
    {loc \in Locations : loc.lat \in {423601, 423611}}
        \cup {[lat |-> 424900, lon |-> -710589]}

\* event-driven-weather.provider.ts lines 32-40: the event built from a reading.
WeatherEventOf(loc, r) ==
    [latitude |-> loc.lat, longitude |-> loc.lon,
     temperatureC |-> IF r.temperatureC = NullNum THEN 0 ELSE r.temperatureC,
     windSpeedMps |-> IF r.windSpeedMps = NullNum THEN 0 ELSE r.windSpeedMps,
     precipitationMmHr |-> r.precipitationMmHr]

NoEvent ==
    [latitude |-> 0, longitude |-> 0, temperatureC |-> NullNum,
     windSpeedMps |-> NullNum, precipitationMmHr |-> NullNum]

\* A switch whose GT case admits equality.
CompareInclusive(operator, value, threshold) ==
    IF threshold = Undefined THEN operator = "NE"
    ELSE CASE operator \in {"GT", "GTE"} -> value >= threshold
           [] operator = "LT" -> value < threshold
           [] operator = "LTE" -> value <= threshold
           [] operator = "EQ" -> value = threshold
           [] operator = "NE" -> value # threshold
           [] OTHER -> FALSE

\* evaluate-alert.use-case.ts lines 22-37: the switch on the operator.  A
\* comparison with an undefined threshold is false, except !== which is true.
Compare(operator, value, threshold) ==
    IF threshold = Undefined THEN operator = "NE"
    ELSE CASE operator = "GT" -> value > threshold
           [] operator = "GTE" -> value >= threshold
           [] operator = "LT" -> value < threshold
           [] operator = "LTE" -> value <= threshold
           [] operator = "EQ" -> value = threshold
           [] operator = "NE" -> value # threshold
           [] OTHER -> FALSE

\* Lines 15-20: valueMap[parameter]; a key the map lacks reads undefined.
valueMap(parameter, values) ==
    CASE parameter = "TEMPERATURE" -> values.temperatureC
      [] parameter = "WIND_SPEED" -> values.windSpeedMps
      [] parameter = "PRECIPITATION" -> values.precipitationMmHr
      [] OTHER -> Undefined

\* An evaluator that stays triggered once any evaluation has triggered.
evaluateAlertConditionLatched(parameter, operator, threshold, values) ==
    LET currentValue == valueMap(parameter, values)
    IN  IF currentValue \in {NullNum, Undefined}
        THEN [currentValue |-> currentValue, triggered |-> FALSE]
        ELSE [currentValue |-> currentValue,
              triggered |-> \/ Compare(operator, currentValue, threshold)
                            \/ lastResult.triggered]

\* evaluate-alert.use-case.ts lines 4-38.
evaluateAlertCondition(parameter, operator, threshold, values) ==
    LET currentValue == valueMap(parameter, values)
    IN  IF currentValue \in {NullNum, Undefined}
        THEN [currentValue |-> currentValue, triggered |-> FALSE]
        ELSE [currentValue |-> currentValue,
              triggered |-> Compare(operator, currentValue, threshold)]

\* String.prototype.toUpperCase on the spellings a row can carry.
toUpperCase(parameter) ==
    CASE parameter = "temperature" -> "TEMPERATURE"
      [] parameter = "windSpeed" -> "WINDSPEED"
      [] parameter = "precipitation" -> "PRECIPITATION"
      [] OTHER -> parameter

\* event-driven-alert-evaluation.use-case.ts lines 202-214.
extractWeatherValue(weatherData, parameter) ==
    CASE parameter = "temperature" -> weatherData.temperatureC
      [] parameter = "windSpeed" -> weatherData.windSpeedMps
      [] parameter = "precipitation" -> weatherData.precipitationMmHr
      [] OTHER -> NullNum

Abs(x) == IF x < 0 THEN 0 - x ELSE x

\* The radius handleWeatherUpdate passes (0.01 degree), in units of 0.0001.
RadiusDegrees == 100

\* Lines 190-196: the filter of findAlertsForLocation; a null coordinate
\* reads 0.
IsRelevant(cfg, weatherData) ==
    LET alertLat == IF cfg.latitude = NullNum THEN 0 ELSE cfg.latitude
        alertLon == IF cfg.longitude = NullNum THEN 0 ELSE cfg.longitude
    IN  /\ Abs(alertLat - weatherData.latitude) <= RadiusDegrees
        /\ Abs(alertLon - weatherData.longitude) <= RadiusDegrees

\* Lines 88-109: evaluateAlertWithEvent up to its first await, for the row
\* alert = (cfg, stored) of the snapshot.  The row has no member `value`.
NoTask ==
    [st |-> "none", previousState |-> FALSE, triggered |-> FALSE,
     currentValue |-> NullNum]

EvaluateWithEvent(cfg, stored, weatherData) ==
    LET currentValue == extractWeatherValue(weatherData, cfg.parameter)
        evaluation ==
            evaluateAlertCondition(toUpperCase(cfg.parameter), cfg.operator,
                Undefined,
                [temperatureC |-> IF cfg.parameter = "temperature"
                                  THEN currentValue ELSE NullNum,
                 windSpeedMps |-> IF cfg.parameter = "windSpeed"
                                  THEN currentValue ELSE NullNum,
                 precipitationMmHr |-> IF cfg.parameter = "precipitation"
                                       THEN currentValue ELSE NullNum])
    IN  IF currentValue \in {NullNum, Undefined}
        THEN [NoTask EXCEPT !.st = "returned"]
        ELSE [st |-> "updating",
              previousState |-> (stored.lastState = "true"),
              triggered |-> evaluation.triggered,
              currentValue |-> currentValue]

\* part_015 lines 86-95: the evaluation of the sweep for one reading.
EvaluateWithReading(cfg, r) ==
    evaluateAlertCondition(cfg.parameter, cfg.operator, cfg.threshold,
        [temperatureC |-> r.temperatureC,
         windSpeedMps |-> r.windSpeedMps,
         precipitationMmHr |-> IF r.precipitationMmHr = NullNum
                               THEN 0 ELSE r.precipitationMmHr])

\* scheduler.service.ts lines 171-176: the row after the update; Prisma
\* leaves a column alone whose value is undefined.
Updated(stored, update) ==
    [lastState |-> BoolStr(update.triggered),
     lastValue |-> IF update.currentValue = Undefined
                   THEN stored.lastValue ELSE update.currentValue]

\* ------------------------------------------------------------------------
\* Alert evaluation: the event-driven path
\* ------------------------------------------------------------------------
Consumers == {"c1", "c2"}

IdleConsumer == [pc |-> "idle", msg |-> NoEvent, tasks |-> [a \in Alerts |-> NoTask]]

Settled(task) == task.st \in {"none", "returned", "fulfilled", "rejected"}

\* A handler that gives up at the first rejected evaluation.
AfterTasksFailFast(c, tasks) ==
    IF \E a \in Alerts : tasks[a].st = "rejected"
    THEN IdleConsumer
    ELSE IF \A a \in Alerts : Settled(tasks[a])
    THEN IdleConsumer
    ELSE [cons[c] EXCEPT !.pc = "evaluating", !.tasks = tasks]

\* Lines 66-71: Promise.allSettled resolves once no evaluation is pending,
\* and the handler returns.
AfterTasks(c, tasks) ==
    IF \A a \in Alerts : Settled(tasks[a])
    THEN IdleConsumer
    ELSE [cons[c] EXCEPT !.pc = "evaluating", !.tasks = tasks]

NoHistory == [rising |-> 0, falling |-> 0, due |-> 0, repeated |-> FALSE]

\* The history of a write of `triggered` to the row of alert a.
Written(h, stored, triggered, byEvent) ==
    [h EXCEPT
       !.rising = IF stored.lastState # "true" /\ triggered THEN @ + 1 ELSE @,
       !.falling = IF stored.lastState = "true" /\ ~triggered THEN @ + 1 ELSE @,
       !.repeated = IF byEvent THEN @ ELSE stored.lastState = "true" /\ triggered]

\* event-driven-weather.provider.ts lines 25-49 with kafka.service.ts lines
\* 145-166: a reading is turned into an event on weather-updates.
PublishWeather(loc, r) ==
    /\ observed < MaxObservations
    /\ observed' = observed + 1
    /\ weatherTopic' = Append(weatherTopic, WeatherEventOf(loc, r))
    /\ UNCHANGED <<alertCfg, alertStore, cons, evalTopic, notified, sched,
                   sweeps, sent, hist>>
    /\ UNCHANGED <<gatewayVars, callVars, publishVars, evalVars>>

SameKey(e1, e2) == e1.latitude = e2.latitude /\ e1.longitude = e2.longitude

\* kafka.service.ts lines 243-274 and use case lines 41-64, 86-112: a member
\* of the group alert-evaluators takes the next event; listAlerts resolves
\* with the rows as they are now; every relevant row is evaluated up to its
\* first await.  Events of one key are in one partition and are handled one
\* after another.
handleWeatherUpdate(c) ==
    /\ cons[c].pc = "idle"
    /\ weatherTopic # <<>>
    /\ \A d \in Consumers :
          cons[d].pc # "idle" => ~SameKey(cons[d].msg, Head(weatherTopic))
    /\ LET weatherData == Head(weatherTopic)
           relevantAlerts == {a \in Alerts : IsRelevant(alertCfg[a], weatherData)}
           tasks == [a \in Alerts |->
                       IF a \in relevantAlerts
                       THEN EvaluateWithEvent(alertCfg[a], alertStore[a], weatherData)
                       ELSE NoTask]
           owed(a) ==
               /\ a \in relevantAlerts
               /\ alertStore[a].lastState # "true"
               /\ EvaluateWithReading(alertCfg[a], weatherData).triggered
       IN  /\ cons' = [cons EXCEPT ![c] =
                          IF \A a \in Alerts : Settled(tasks[a])
                          THEN IdleConsumer
                          ELSE [pc |-> "evaluating", msg |-> weatherData,
                                tasks |-> tasks]]
           /\ hist' = [a \in Alerts |->
                         [hist[a] EXCEPT !.due = IF owed(a) THEN @ + 1 ELSE @]]
    /\ weatherTopic' = Tail(weatherTopic)
    /\ UNCHANGED <<alertCfg, alertStore, observed, evalTopic, notified, sched,
                   sweeps, sent>>
    /\ UNCHANGED <<gatewayVars, callVars, publishVars, evalVars>>

\* The AlertEventData of lines 118-133: the members handleAlertEvaluation reads.
AlertEvent(a, task) ==
    [alertId |-> a, triggered |-> task.triggered,
     previousState |-> task.previousState]

\* Lines 112-143 with kafka.service.ts lines 177-205: the update resolves and
\* publishAlertEvaluation is called; either the evaluation event is on
\* alert-evaluations, or the publish throws, which is logged and rethrown.
EvaluationWritten(c, a, published) ==
    /\ cons[c].pc = "evaluating"
    /\ cons[c].tasks[a].st = "updating"
    /\ alertStore' = [alertStore EXCEPT ![a] = Updated(@, cons[c].tasks[a])]
    /\ hist' = [hist EXCEPT ![a] =
                   Written(@, alertStore[a], cons[c].tasks[a].triggered, TRUE)]
    /\ evalTopic' = IF published
                    THEN Append(evalTopic, AlertEvent(a, cons[c].tasks[a]))
                    ELSE evalTopic
    /\ cons' = [cons EXCEPT ![c] =
                   AfterTasks(c, [cons[c].tasks EXCEPT
                       ![a].st = IF published THEN "fulfilled" ELSE "rejected"])]
    /\ UNCHANGED <<alertCfg, weatherTopic, observed, notified, sched, sweeps,
                   sent>>
    /\ UNCHANGED <<gatewayVars, callVars, publishVars, evalVars>>

\* Lines 112, 140-143: updateAlertAfterEvaluation rejects; rethrown.
UpdateFails(c, a) ==
    /\ cons[c].pc = "evaluating"
    /\ cons[c].tasks[a].st = "updating"
    /\ cons' = [cons EXCEPT ![c] =
                   AfterTasks(c, [cons[c].tasks EXCEPT ![a].st = "rejected"])]
    /\ UNCHANGED <<alertCfg, alertStore, weatherTopic, observed, evalTopic,
                   notified, sched, sweeps, sent, hist>>
    /\ UNCHANGED <<gatewayVars, callVars, publishVars, evalVars>>

\* Lines 154-162: the NotificationEventData built for an evaluation event;
\* type and recipient are literals.  An alert's own addresses are written
\* "contactEmail" and "contactPhone".
NotificationEventOf(alertData) ==
    [alertId |-> alertData.alertId, type |-> "email",
     recipient |-> "user@example.com"]

\* The notifications published for an alert: all of them, and those on a
\* channel of the alert to the alert's own address.
NoneNotified == [triggered |-> 0, resolved |-> 0, toEmail |-> 0, toPhone |-> 0]

Counted(n, notificationEvent) ==
    [n EXCEPT
       !.triggered = @ + 1,
       !.toEmail = IF notificationEvent.type = "email"
                      /\ notificationEvent.recipient = "contactEmail"
                   THEN @ + 1 ELSE @,
       !.toPhone = IF notificationEvent.type = "sms"
                      /\ notificationEvent.recipient = "contactPhone"
                   THEN @ + 1 ELSE @]

\* Lines 149-177: the group notification-triggers handles an evaluation
\* event; published says whether publishNotification resolved.
handleAlertEvaluation(published) ==
    /\ evalTopic # <<>>
    /\ LET alertData == Head(evalTopic)
       IN  notified' =
             IF alertData.triggered /\ ~alertData.previousState /\ published
             THEN [notified EXCEPT ![alertData.alertId] =
                      Counted(@, NotificationEventOf(alertData))]
             ELSE notified
    /\ evalTopic' = Tail(evalTopic)
    /\ UNCHANGED <<alertCfg, alertStore, weatherTopic, observed, cons, sched,
                   sweeps, sent, hist>>
    /\ UNCHANGED <<gatewayVars, callVars, publishVars, evalVars>>

\* ------------------------------------------------------------------------
\* Alert evaluation: the scheduler sweep
\* ------------------------------------------------------------------------
NoEvaluation == [currentValue |-> NullNum, triggered |-> FALSE]

\* `absent` is history: the upstream response behind the reading had no value
\* for the parameter of the row being evaluated.
IdleScheduler ==
    [pc |-> "idle", todo |-> <<>>, evaluation |-> NoEvaluation,
     triggeredAlerts |-> <<>>, absent |-> FALSE]

\* data.data.values of a response of the upstream, null for a member it
\* lacks; snow, sleet and freezing rain are left out of every response.
UpstreamResponses ==
    [temperature : {NullNum, 25}, windSpeed : {3}, rainIntensity : {NullNum, 0}]

NoResponse == [temperature |-> NullNum, windSpeed |-> NullNum, rainIntensity |-> NullNum]

\* tomorrow-weather.provider.ts lines 102-112: the reading made of a response.
mapResponse(values) ==
    [temperatureC |-> values.temperature,
     windSpeedMps |-> values.windSpeed,
     precipitationMmHr |-> IF values.rainIntensity = NullNum
                           THEN 0 ELSE values.rainIntensity,
     raw |-> "upstream"]

\* What getRealtime resolves with in a sweep: the reading of a response, or
\* a synthetic one that no response is behind.
SweepSources ==
    {[reading |-> mapResponse(v), values |-> v, synthetic |-> FALSE]
        : v \in UpstreamResponses}
    \cup {[reading |-> m, values |-> NoResponse, synthetic |-> TRUE]
             : m \in Readings \ UpstreamReadings}

\* Whether a response lacks the value of a parameter.
AbsentIn(source, parameter) ==
    /\ ~source.synthetic
    /\ CASE parameter = "TEMPERATURE" -> source.values.temperature = NullNum
         [] parameter = "WIND_SPEED" -> source.values.windSpeed = NullNum
         [] parameter = "PRECIPITATION" -> source.values.rainIntensity = NullNum
         [] OTHER -> FALSE

\* part_015 lines 75-78: rows without coordinates are passed over.
RECURSIVE SkipNoCoordinates(_)
SkipNoCoordinates(todo) ==
    IF todo = <<>> THEN <<>>
    ELSE IF alertCfg[Head(todo)].latitude = NullNum
            \/ alertCfg[Head(todo)].longitude = NullNum
         THEN SkipNoCoordinates(Tail(todo))
         ELSE todo

\* part_015 lines 74-80, 111-113 and scheduler.service.ts lines 37-41: the
\* sweep goes on to the next row with coordinates, else to the
\* notifications, else it is finished.
Proceed(todo, triggeredAlerts) ==
    LET rest == SkipNoCoordinates(todo)
    IN  IF rest # <<>>
        THEN [pc |-> "weather", todo |-> rest, evaluation |-> NoEvaluation,
              triggeredAlerts |-> triggeredAlerts, absent |-> FALSE]
        ELSE IF triggeredAlerts # <<>>
        THEN [pc |-> "notify", todo |-> <<>>, evaluation |-> NoEvaluation,
              triggeredAlerts |-> triggeredAlerts, absent |-> FALSE]
        ELSE IdleScheduler

\* scheduler.service.ts lines 32-35 and part_015 lines 70-80: the cron
\* callback runs and getAllAlerts resolves.
SweepStart ==
    /\ sched.pc = "idle"
    /\ sweeps < MaxSweeps
    /\ sweeps' = sweeps + 1
    /\ sched' = Proceed(AlertOrder, <<>>)
    /\ UNCHANGED <<alertCfg, alertStore, weatherTopic, observed, cons,
                   evalTopic, notified, sent, hist>>
    /\ UNCHANGED <<gatewayVars, callVars, publishVars, evalVars>>

\* part_015 lines 80-100: getRealtime resolves with the reading of source;
\* the condition is evaluated and the update is issued.
SweepWeather(source) ==
    /\ sched.pc = "weather"
    /\ sched' = [sched EXCEPT
                   !.pc = "update",
                   !.evaluation = EvaluateWithReading(alertCfg[Head(sched.todo)],
                                                      source.reading),
                   !.absent = AbsentIn(source, alertCfg[Head(sched.todo)].parameter)]
    /\ UNCHANGED <<alertCfg, alertStore, weatherTopic, observed, cons,
                   evalTopic, notified, sweeps, sent, hist>>
    /\ UNCHANGED <<gatewayVars, callVars, publishVars, evalVars>>

\* part_015 line 80 and scheduler.service.ts lines 42-44: getRealtime
\* rejects; execute rejects and the callback logs the error.
SweepWeatherFails ==
    /\ sched.pc = "weather"
    /\ sched' = IdleScheduler
    /\ UNCHANGED <<alertCfg, alertStore, weatherTopic, observed, cons,
                   evalTopic, notified, sweeps, sent, hist>>
    /\ UNCHANGED <<gatewayVars, callVars, publishVars, evalVars>>

\* part_015 lines 97-111: the update resolves; a triggered row is kept for
\* notification.
SweepUpdateDone ==
    /\ sched.pc = "update"
    /\ LET a == Head(sched.todo)
           triggeredAlerts ==
               IF sched.evaluation.triggered
               THEN Append(sched.triggeredAlerts, a)
               ELSE sched.triggeredAlerts
       IN  /\ alertStore' = [alertStore EXCEPT ![a] = Updated(@, sched.evaluation)]
           /\ hist' = [hist EXCEPT ![a] =
                          Written(@, alertStore[a], sched.evaluation.triggered, FALSE)]
           /\ sched' = Proceed(Tail(sched.todo), triggeredAlerts)
    /\ UNCHANGED <<alertCfg, weatherTopic, observed, cons, evalTopic,
                   notified, sweeps, sent>>
    /\ UNCHANGED <<gatewayVars, callVars, publishVars, evalVars>>

\* part_015 line 97 and scheduler.service.ts lines 42-44: the update rejects.
SweepUpdateFails ==
    /\ sched.pc = "update"
    /\ sched' = IdleScheduler
    /\ UNCHANGED <<alertCfg, alertStore, weatherTopic, observed, cons,
                   evalTopic, notified, sweeps, sent, hist>>
    /\ UNCHANGED <<gatewayVars, callVars, publishVars, evalVars>>

\* scheduler.service.ts lines 37-39 and 61-86: sendNotification for the
\* next triggered row.
sendNotification ==
    /\ sched.pc = "notify"
    /\ LET a == Head(sched.triggeredAlerts)
       IN  sent' = [sent EXCEPT
                      ![a].email = IF alertCfg[a].contactEmail THEN @ + 1 ELSE @,
                      ![a].sms = IF alertCfg[a].contactPhone THEN @ + 1 ELSE @]
    /\ sched' = Proceed(<<>>, Tail(sched.triggeredAlerts))
    /\ UNCHANGED <<alertCfg, alertStore, weatherTopic, observed, cons,
                   evalTopic, notified, sweeps, hist>>
    /\ UNCHANGED <<gatewayVars, callVars, publishVars, evalVars>>

\* ------------------------------------------------------------------------
\* evaluateAlertCondition on its own, over the arguments its type admits
\* ------------------------------------------------------------------------
Parameters == {"TEMPERATURE", "WIND_SPEED", "PRECIPITATION"}

Operators == {"GT", "GTE", "LT", "LTE", "EQ", "NE"}

\* number | null, the numbers up to the bound.
EvalValues == {NullNum} \cup (0..MaxEvalValue)

\* The three fields carry values that tell them apart.
EvalObservations ==
    [temperatureC : EvalValues,
     windSpeedMps : {NullNum, MaxEvalValue + 1},
     precipitationMmHr : {NullNum, MaxEvalValue + 2}]

EvalInputs ==
    [parameter : Parameters, operator : Operators,
     threshold : 0..(MaxEvalValue + 1), values : EvalObservations]

\* The arguments the other specifications start from.
TypedArgs ==
    [parameter |-> "TEMPERATURE", operator |-> "GT", threshold |-> 0,
     values |-> [temperatureC |-> NullNum, windSpeedMps |-> NullNum,
                 precipitationMmHr |-> NullNum]]

\* One call of evaluateAlertCondition (part_014 lines 4-38).
Apply(args) ==
    evaluateAlertCondition(args.parameter, args.operator, args.threshold, args.values)

\* The coordinates of the rows of the other specifications.
TypedRows == [a \in Alerts |-> [latitude |-> 423601, longitude |-> -710589]]

NoMatching ==
    /\ matchPc = "start"
    /\ matched = {}

NoEvaluations ==
    /\ evalPc = "start"
    /\ evalResult = NoEvaluation
    /\ evalAgain = NoEvaluation
    /\ lastResult = NoEvaluation
    /\ between = FALSE
    /\ NoMatching

\* The arguments are evaluated.
Evaluate ==
    /\ evalPc = "start"
    /\ evalPc' = "first"
    /\ evalResult' = Apply(evalArgs)
    /\ lastResult' = Apply(evalArgs)
    /\ UNCHANGED <<evalArgs, evalAgain, between, matchVars, repositoryVars>>
    /\ UNCHANGED <<gatewayVars, engineVars, callVars, publishVars>>

\* The conditions of other alerts, evaluated on the same observation.
OtherInputs == {other \in EvalInputs : other.values = evalArgs.values}

\* Other arguments are evaluated in between.
EvaluateOther(other) ==
    /\ evalPc = "first"
    /\ lastResult' = Apply(other)
    /\ between' = TRUE
    /\ UNCHANGED <<evalArgs, evalPc, evalResult, evalAgain, matchVars, repositoryVars>>
    /\ UNCHANGED <<gatewayVars, engineVars, callVars, publishVars>>

\* The same arguments are evaluated again.
Reevaluate ==
    /\ evalPc = "first"
    /\ evalPc' = "again"
    /\ evalAgain' = Apply(evalArgs)
    /\ lastResult' = Apply(evalArgs)
    /\ UNCHANGED <<evalArgs, evalResult, between, matchVars, repositoryVars>>
    /\ UNCHANGED <<gatewayVars, engineVars, callVars, publishVars>>

NextEvaluate ==
    \/ Evaluate
    \/ \E other \in OtherInputs : EvaluateOther(other)
    \/ Reevaluate

\* ------------------------------------------------------------------------
\* findAlertsForLocation on its own, over rows with and without coordinates
\* ------------------------------------------------------------------------
\* latitude and longitude of a row are number | null (AlertRecord).
RowCoordinates ==
    [latitude : {NullNum, 0, 423601}, longitude : {NullNum, -710589}]

\* Observations on and next to the tolerance around the rows, and around 0.
MatchLocations ==
    {[NoEvent EXCEPT !.latitude = lat, !.longitude = lon] :
        lat \in {0, 100, 101, 423601, 423701, 423702}, lon \in {-710589, -710690, 0}}

\* Lines 47-51, 182-197: listAlerts resolves and the filter is applied.
findAlertsForLocation ==
    /\ matchPc = "start"
    /\ matchPc' = "done"
    /\ matched' = {a \in Alerts : IsRelevant(matchRows[a], matchAt)}
    /\ UNCHANGED <<matchRows, matchAt>>
    /\ UNCHANGED <<evalArgs, evalPc, evalResult, evalAgain, lastResult, between, repositoryVars>>
    /\ UNCHANGED <<gatewayVars, engineVars, callVars, publishVars>>

NextMatch == findAlertsForLocation

\* ------------------------------------------------------------------------
\* PrismaAlertRepository behind the alerts controller
\* ------------------------------------------------------------------------
\* How many post-evaluation writes a row is followed through.
MaxWrites == 2

\* The columns of a new row that createAlert passes no value for: never
\* evaluated.  lastEvaluatedAt counts the writes, 0 is null.
ColumnDefaults == [lastState |-> "null", lastValue |-> NullNum, lastEvaluatedAt |-> 0]

\* The part of a POST body that decides whether the alert is accepted.
CreateBodies ==
    [cityName : {"null", "Boston"}, latitude : {NullNum, 423601},
     longitude : {NullNum, -710589}]

\* What updateAlertAfterEvaluation is called with.
EvaluationUpdates == [currentValue : {NullNum, 25}, triggered : BOOLEAN]

NothingReturned == [op |-> "none", id |-> "none", status |-> 0, items |-> <<>>, total |-> 0]

Returned(op, id, status, items, total) ==
    [op |-> op, id |-> id, status |-> status, items |-> items, total |-> total]

NoRows ==
    /\ table = <<>>
    /\ response = NothingReturned

Stored(rows) == {rows[i].id : i \in DOMAIN rows}

Without(rows, id) == SelectSeq(rows, LAMBDA row : row.id # id)

\* alerts.controller.ts lines 7-30 with the repository's lines 116-133:
\* POST /.  The database generates the id.
createAlert(id, body) ==
    /\ id \notin Stored(table)
    /\ IF body.cityName = "null"
          /\ (body.latitude = NullNum \/ body.longitude = NullNum)
       THEN /\ response' = Returned("create", "none", 400, <<>>, 0)
            /\ UNCHANGED table
       ELSE LET created == [id |-> id, lastState |-> ColumnDefaults.lastState,
                            lastValue |-> ColumnDefaults.lastValue,
                            lastEvaluatedAt |-> ColumnDefaults.lastEvaluatedAt]
            IN  /\ table' = <<created>> \o table
                /\ response' = Returned("create", id, 201, <<created>>, 0)
    /\ UNCHANGED <<evalArgs, evalPc, evalResult, evalAgain, lastResult, between, matchVars>>
    /\ UNCHANGED <<gatewayVars, engineVars, callVars, publishVars>>

\* alerts.controller.ts lines 34-46 with the repository's lines 145-165:
\* GET /?page=&pageSize=.
listAlertsPaginated(page, pageSize) ==
    /\ IF page < 1 \/ pageSize < 1 \/ pageSize > 100
       THEN response' = Returned("page", "none", 400, <<>>, 0)
       ELSE LET skip == (page - 1) * pageSize
                items == SubSeq(table, skip + 1, Min(skip + pageSize, Len(table)))
            IN  response' = Returned("page", "none", 200, items, Len(table))
    /\ UNCHANGED table
    /\ UNCHANGED <<evalArgs, evalPc, evalResult, evalAgain, lastResult, between, matchVars>>
    /\ UNCHANGED <<gatewayVars, engineVars, callVars, publishVars>>

\* What GET /state shows of a row: lastState ?? false.
StateOf(row) ==
    [row EXCEPT !.lastState = IF @ = "null" THEN "false" ELSE @]

\* A GET /state that stores what it shows.
getStateStoring ==
    /\ table' = [i \in DOMAIN table |-> StateOf(table[i])]
    /\ response' = Returned("state", "none", 200,
                            [i \in DOMAIN table |-> StateOf(table[i])], 0)
    /\ UNCHANGED <<evalArgs, evalPc, evalResult, evalAgain, lastResult, between, matchVars>>
    /\ UNCHANGED <<gatewayVars, engineVars, callVars, publishVars>>

\* alerts.controller.ts lines 48-63 with the repository's lines 135-138:
\* GET /state.
getState ==
    /\ response' = Returned("state", "none", 200,
                            [i \in DOMAIN table |-> StateOf(table[i])], 0)
    /\ UNCHANGED table
    /\ UNCHANGED <<evalArgs, evalPc, evalResult, evalAgain, lastResult, between, matchVars>>
    /\ UNCHANGED <<gatewayVars, engineVars, callVars, publishVars>>

\* Lines 140-143: what the sweep reads.
getAllAlerts ==
    /\ response' = Returned("all", "none", 0, table, 0)
    /\ UNCHANGED table
    /\ UNCHANGED <<evalArgs, evalPc, evalResult, evalAgain, lastResult, between, matchVars>>
    /\ UNCHANGED <<gatewayVars, engineVars, callVars, publishVars>>

\* Lines 167-189: the write after an evaluation; prisma.alert.update throws
\* when the row is gone.
updateAlertAfterEvaluation(alertId, update) ==
    /\ IF alertId \in Stored(table)
       THEN /\ \A i \in DOMAIN table :
                  table[i].id = alertId => table[i].lastEvaluatedAt < MaxWrites
            /\ table' = [i \in DOMAIN table |->
                           IF table[i].id = alertId
                           THEN [id |-> alertId,
                                 lastState |-> BoolStr(update.triggered),
                                 lastValue |-> update.currentValue,
                                 lastEvaluatedAt |-> table[i].lastEvaluatedAt + 1]
                           ELSE table[i]]
            /\ response' = Returned("update", alertId, 0, <<>>, 0)
       ELSE /\ response' = Returned("update", alertId, 500, <<>>, 0)
            /\ UNCHANGED table
    /\ UNCHANGED <<evalArgs, evalPc, evalResult, evalAgain, lastResult, between, matchVars>>
    /\ UNCHANGED <<gatewayVars, engineVars, callVars, publishVars>>

\* alerts.controller.ts lines 65-73 with the repository's lines 191-193:
\* DELETE /:id; prisma.alert.delete throws when there is no such row.
deleteAlert(id) ==
    /\ table' = Without(table, id)
    /\ response' = Returned("delete", id,
                            IF id \in Stored(table) THEN 204 ELSE 500, <<>>, 0)
    /\ UNCHANGED <<evalArgs, evalPc, evalResult, evalAgain, lastResult, between, matchVars>>
    /\ UNCHANGED <<gatewayVars, engineVars, callVars, publishVars>>

\* alerts.controller.ts lines 75-82 with the repository's lines 195-198:
\* DELETE /.
deleteAllAlerts ==
    /\ table' = <<>>
    /\ response' = Returned("delete-all", "none", 200, <<>>, Len(table))
    /\ UNCHANGED <<evalArgs, evalPc, evalResult, evalAgain, lastResult, between, matchVars>>
    /\ UNCHANGED <<gatewayVars, engineVars, callVars, publishVars>>

NextRepository ==
    \/ \E id \in Alerts, body \in CreateBodies : createAlert(id, body)
    \/ \E page \in 0 .. 2, pageSize \in 0 .. 2 : listAlertsPaginated(page, pageSize)
    \/ getState
    \/ getAllAlerts
    \/ \E id \in Alerts, update \in EvaluationUpdates :
          updateAlertAfterEvaluation(id, update)
    \/ \E id \in Alerts : deleteAlert(id)
    \/ deleteAllAlerts

\* ------------------------------------------------------------------------
\* EventDrivenWeatherProvider.getRealtime and KafkaService.publishWeatherUpdate
\* ------------------------------------------------------------------------
IdleRequest == [pc |-> "idle", loc |-> [lat |-> 0, lon |-> 0], inner |-> NoResult]

NoneHanded == [c \in Callers |-> NoResult]

\* kafka.service.ts line 62 and the provider's constructor: nothing is
\* connected, called or pending.
NoRequests ==
    /\ request = [c \in Callers |-> IdleRequest]
    /\ publishing = [c \in Callers |-> NoEvent]
    /\ isConnected = FALSE
    /\ handed = NoneHanded

\* What this.weatherProvider.getRealtime() settles with: a reading of the
\* upstream, a synthetic reading of the cooldown, or an error.
InnerOutcomes ==
    {DataResult(r, "loop", 200) : r \in UpstreamReadings}
        \cup {DataResult(m, "cooldown", 0) : m \in Readings \ UpstreamReadings}
        \cup {HttpError(503)}

\* A getRealtime that waits for the publish and fails when it fails.
getRealtimeFailsOffline(weatherData, connected) ==
    IF connected THEN weatherData ELSE [weatherData EXCEPT !.kind = "publish-error"]

\* Lines 43-48: the publish is started, its rejection is caught, and
\* weatherData is returned.
getRealtimeReturns(weatherData, connected) == weatherData

\* kafka.service.ts lines 89-99.
KafkaConnect ==
    /\ ~isConnected
    /\ isConnected' = TRUE
    /\ handed' = NoneHanded
    /\ UNCHANGED <<request, publishing>>
    /\ UNCHANGED <<gatewayVars, engineVars, callVars, evalVars>>

\* kafka.service.ts lines 383-404.
KafkaDisconnect ==
    /\ isConnected
    /\ isConnected' = FALSE
    /\ handed' = NoneHanded
    /\ UNCHANGED <<request, publishing>>
    /\ UNCHANGED <<gatewayVars, engineVars, callVars, evalVars>>

\* Lines 25-29: the call reaches the await of the inner provider.
GetRealtimeCall(c, loc) ==
    /\ request[c].pc = "idle"
    /\ publishing[c] = NoEvent
    /\ observed < MaxObservations
    /\ observed' = observed + 1
    /\ request' = [request EXCEPT ![c] = [pc |-> "fetching", loc |-> loc,
                                          inner |-> NoResult]]
    /\ handed' = NoneHanded
    /\ UNCHANGED <<publishing, isConnected>>
    /\ UNCHANGED <<alertCfg, alertStore, weatherTopic, cons, evalTopic, notified,
                   sched, sweeps, sent, hist>>
    /\ UNCHANGED <<gatewayVars, callVars, evalVars>>

\* Line 29: the inner provider's promise settles.
InnerSettles(c, inner) ==
    /\ request[c].pc = "fetching"
    /\ request' = [request EXCEPT ![c].pc = "resumed", ![c].inner = inner]
    /\ handed' = NoneHanded
    /\ UNCHANGED <<publishing, isConnected>>
    /\ UNCHANGED <<gatewayVars, engineVars, callVars, evalVars>>

\* Lines 29-48 and kafka.service.ts lines 145-162: the call resumes.  An
\* error of the inner provider is thrown on.  Otherwise the event is built
\* and publishWeatherEvent is called without await: publishWeatherUpdate
\* throws at once when Kafka is not connected (caught at line 58), else
\* producer.send is started; getRealtime returns.
Resume(c) ==
    /\ request[c].pc = "resumed"
    /\ IF request[c].inner.kind = "data"
       THEN /\ publishing' =
                 IF isConnected
                 THEN [publishing EXCEPT
                         ![c] = WeatherEventOf(request[c].loc, request[c].inner.value)]
                 ELSE publishing
            /\ handed' = [NoneHanded EXCEPT
                            ![c] = getRealtimeReturns(request[c].inner, isConnected)]
       ELSE /\ handed' = [NoneHanded EXCEPT ![c] = request[c].inner]
            /\ UNCHANGED publishing
    /\ request' = [request EXCEPT ![c] = IdleRequest]
    /\ UNCHANGED isConnected
    /\ UNCHANGED <<gatewayVars, engineVars, callVars, evalVars>>

\* kafka.service.ts lines 162-168: producer.send resolves, the event is on
\* weather-updates.
ProducerSendDone(c) ==
    /\ publishing[c] # NoEvent
    /\ weatherTopic' = Append(weatherTopic, publishing[c])
    /\ publishing' = [publishing EXCEPT ![c] = NoEvent]
    /\ handed' = NoneHanded
    /\ UNCHANGED <<request, isConnected>>
    /\ UNCHANGED <<alertCfg, alertStore, observed, cons, evalTopic, notified,
                   sched, sweeps, sent, hist>>
    /\ UNCHANGED <<gatewayVars, callVars, evalVars>>

\* kafka.service.ts lines 168-171 and provider lines 58-64: producer.send
\* rejects; the error is logged twice and dropped.
ProducerSendFails(c) ==
    /\ publishing[c] # NoEvent
    /\ publishing' = [publishing EXCEPT ![c] = NoEvent]
    /\ handed' = NoneHanded
    /\ UNCHANGED <<request, isConnected>>
    /\ UNCHANGED <<gatewayVars, engineVars, callVars, evalVars>>

NextPublish ==
    \/ KafkaConnect
    \/ KafkaDisconnect
    \/ \E c \in Callers, loc \in EventLocations : GetRealtimeCall(c, loc)
    \/ \E c \in Callers, inner \in InnerOutcomes : InnerSettles(c, inner)
    \/ \E c \in Callers : Resume(c)
    \/ \E c \in Callers : ProducerSendDone(c)
    \/ \E c \in Callers : ProducerSendFails(c)

\* ------------------------------------------------------------------------
\* Alert evaluation: the specification
\* ------------------------------------------------------------------------
EngineStart ==
    /\ alertStore = [a \in Alerts |-> NeverEvaluated]
    /\ weatherTopic = <<>>
    /\ observed = 0
    /\ cons = [c \in Consumers |-> IdleConsumer]
    /\ evalTopic = <<>>
    /\ notified = [a \in Alerts |-> NoneNotified]
    /\ sched = IdleScheduler
    /\ sweeps = 0
    /\ sent = [a \in Alerts |-> [email |-> 0, sms |-> 0]]
    /\ hist = [a \in Alerts |-> NoHistory]

InitEngine ==
    /\ GatewayInit
    /\ alertCfg \in [Alerts -> AlertConfigs]
    /\ EngineStart
    /\ NoCalls
    /\ NoRequests
    /\ evalArgs = TypedArgs
    /\ NoEvaluations
    /\ matchRows = TypedRows
    /\ matchAt = NoEvent
    /\ NoRows

NextEvents ==
    \/ \E loc \in EventLocations, r \in Readings : PublishWeather(loc, r)
    \/ \E c \in Consumers : handleWeatherUpdate(c)
    \/ \E c \in Consumers, a \in Alerts, published \in BOOLEAN :
          EvaluationWritten(c, a, published)
    \/ \E c \in Consumers, a \in Alerts : UpdateFails(c, a)
    \/ \E published \in BOOLEAN : handleAlertEvaluation(published)

\* The event-driven path on its own.
SpecEvents == InitEngine /\ [][NextEvents]_vars

NextSweep ==
    \/ SweepStart
    \/ \E source \in SweepSources : SweepWeather(source)
    \/ SweepWeatherFails
    \/ SweepUpdateDone
    \/ SweepUpdateFails
    \/ sendNotification

\* The rows the sweep is run over: those of the event-driven path and one
\* on precipitation.
SweepConfigs == AlertConfigs \cup {AlertConfig("PRECIPITATION", "LT")}

InitSweep ==
    /\ GatewayInit
    /\ alertCfg \in [Alerts -> SweepConfigs]
    /\ EngineStart
    /\ NoCalls
    /\ NoRequests
    /\ evalArgs = TypedArgs
    /\ NoEvaluations
    /\ matchRows = TypedRows
    /\ matchAt = NoEvent
    /\ NoRows

\* The scheduler on its own.
SpecSweep == InitSweep /\ [][NextSweep]_vars

\* ------------------------------------------------------------------------
\* The weather gateway: the specification
\* ------------------------------------------------------------------------
Init ==
    /\ GatewayInit
    /\ alertCfg = [a \in Alerts |-> TypedConfig]
    /\ EngineStart
    /\ NoCalls
    /\ NoRequests
    /\ evalArgs = TypedArgs
    /\ NoEvaluations
    /\ matchRows = TypedRows
    /\ matchAt = NoEvent
    /\ NoRows

Next ==
    \/ \E c \in Callers, loc \in Locations : CallCacheHit(c, loc)
    \/ \E c \in Callers, loc \in Locations : CallJoin(c, loc)
    \/ \E c \in Callers, loc \in Locations : CallCooldown(c, loc)
    \/ \E c \in Callers, loc \in Locations : CallRejected(c, loc)
    \/ \E c \in Callers, loc \in Locations : CallStart(c, loc)
    \/ \E p \in Callers : HttpOk(p)
    \/ \E p \in Callers, s \in Statuses : HttpRateLimitExhausted(p, s)
    \/ \E p \in Callers, s \in Statuses : HttpThrow(p, s)
    \/ \E p \in Callers, s \in Statuses : HttpRetry(p, s)
    \/ \E p \in Callers : BackoffDone(p)
    \/ Tick

Spec == Init /\ [][Next]_vars

\* Line 92: the axios call of producer p settles, one way or another (it
\* has a 5 s timeout).
AttemptCompletes(p) ==
    \/ HttpOk(p)
    \/ \E s \in Statuses : HttpRateLimitExhausted(p, s)
    \/ \E s \in Statuses : HttpThrow(p, s)
    \/ \E s \in Statuses : HttpRetry(p, s)

\* The steps of the gateway within one unit of time (a retry loop lasts at
\* most 4 x 5 s of timeouts and 6.6 s of backoff).
NextCalls ==
    \/ \E c \in Callers, loc \in Locations : CallCacheHit(c, loc)
    \/ \E c \in Callers, loc \in Locations : CallJoin(c, loc)
    \/ \E c \in Callers, loc \in Locations : CallCooldown(c, loc)
    \/ \E c \in Callers, loc \in Locations : CallRejected(c, loc)
    \/ \E c \in Callers, loc \in Locations : CallStart(c, loc)
    \/ \E p \in Callers : HttpOk(p)
    \/ \E p \in Callers, s \in Statuses : HttpRateLimitExhausted(p, s)
    \/ \E p \in Callers, s \in Statuses : HttpThrow(p, s)
    \/ \E p \in Callers, s \in Statuses : HttpRetry(p, s)
    \/ \E p \in Callers : BackoffDone(p)

\* Lines 186-194 behind POST /dev/reset-circuit-breaker (part_008 lines
\* 114-121): the provider replaces its breaker by a new one.  Taken when no
\* retry loop is running; a loop in flight reports to the breaker it was
\* started through.
resetCircuitBreaker ==
    /\ \A p \in Callers : ~prod[p].active
    /\ breaker' = CircuitBreakerInit
    /\ delivered' = Nothing
    /\ UNCHANGED <<cache, inFlight, cooldownLeft, prod, callers>>
    /\ UNCHANGED <<engineVars, callVars, publishVars, evalVars>>

\* The gateway on a server whose routes are mounted.
SpecOperated == Init /\ [][NextCalls \/ resetCircuitBreaker]_vars

\* The gateway with every HTTP attempt and every backoff timer completing.
SpecFair ==
    /\ Init /\ [][NextCalls]_vars
    /\ \A p \in Callers : WF_vars(AttemptCompletes(p)) /\ WF_vars(BackoffDone(p))

\* The event-driven provider on its own, over any inner provider.
SpecPublish == Init /\ [][NextPublish]_vars

\* evaluateAlertCondition on its own.
InitEvaluate ==
    /\ GatewayInit
    /\ alertCfg = [a \in Alerts |-> TypedConfig]
    /\ EngineStart
    /\ NoCalls
    /\ NoRequests
    /\ evalArgs \in EvalInputs
    /\ NoEvaluations
    /\ matchRows = TypedRows
    /\ matchAt = NoEvent
    /\ NoRows

SpecEvaluate == InitEvaluate /\ [][NextEvaluate]_vars

\* findAlertsForLocation on its own.
InitMatch ==
    /\ GatewayInit
    /\ alertCfg = [a \in Alerts |-> TypedConfig]
    /\ EngineStart
    /\ NoCalls
    /\ NoRequests
    /\ evalArgs = TypedArgs
    /\ NoEvaluations
    /\ matchRows \in [Alerts -> RowCoordinates]
    /\ matchAt \in MatchLocations
    /\ NoRows

SpecMatch == InitMatch /\ [][NextMatch]_vars

\* The alert table on its own, empty at first.
SpecRepository == Init /\ [][NextRepository]_vars

\* ------------------------------------------------------------------------
\* The circuit breaker on its own: any operations, any outcomes
\* ------------------------------------------------------------------------
\* The ages of the latest failureThreshold failures, the newest last.
Latest(ages) ==
    IF Len(ages) > FailureThreshold
    THEN SubSeq(ages, Len(ages) - FailureThreshold + 1, Len(ages))
    ELSE ages

\* The trial call once the step after its settlement is taken.
Pass(t) == IF t \in {"succeeded", "failed"} THEN "none" ELSE t

\* The operations in progress other than the trial call.
Others == IF trial = "running" THEN running - 1 ELSE running

\* graceful-shutdown.ts lines 129-138: execute lets the call through.
Execute ==
    /\ ~executeRejects(breaker)
    /\ running < MaxRunning
    /\ breaker' = executeAdmit(breaker)
    /\ running' = running + 1
    /\ lastCall' = "admitted"
    /\ retryIn' = 0
    /\ trial' = IF breaker.state = "OPEN" THEN "running" ELSE Pass(trial)
    /\ UNCHANGED <<sinceTrialFailure, failureAges, failuresSince>>
    /\ UNCHANGED <<cache, inFlight, cooldownLeft, prod, callers, delivered>>
    /\ UNCHANGED <<engineVars, publishVars, evalVars>>

\* Line 133: the time the error names, lastFailureTime + recoveryTimeout, as
\* its distance from now.
nextRetryIn(b) == RecoveryTimeout - b.sinceLastFailure

\* Lines 129-135: execute throws without running the operation.
ExecuteRejected ==
    /\ executeRejects(breaker)
    /\ lastCall' = "rejected"
    /\ retryIn' = nextRetryIn(breaker)
    /\ trial' = Pass(trial)
    /\ UNCHANGED <<running, sinceTrialFailure, failureAges, failuresSince>>
    /\ UNCHANGED gatewayVars
    /\ UNCHANGED <<engineVars, publishVars, evalVars>>

\* Lines 138-141: the operation resolves; isTrial says whether it is the
\* trial call.
OperationSucceeds(isTrial) ==
    /\ IF isTrial THEN trial = "running" ELSE Others > 0
    /\ breaker' = onSuccess(breaker)
    /\ running' = running - 1
    /\ lastCall' = "succeeded"
    /\ retryIn' = 0
    /\ trial' = IF isTrial THEN "succeeded" ELSE Pass(trial)
    /\ failuresSince' = 0
    /\ UNCHANGED <<sinceTrialFailure, failureAges>>
    /\ UNCHANGED <<cache, inFlight, cooldownLeft, prod, callers, delivered>>
    /\ UNCHANGED <<engineVars, publishVars, evalVars>>

\* Lines 142-145: the operation rejects.
OperationFails(isTrial) ==
    /\ IF isTrial THEN trial = "running" ELSE Others > 0
    /\ breaker.failureCount < MaxFailureCount
    /\ breaker' = onFailure(breaker)
    /\ running' = running - 1
    /\ lastCall' = "failed"
    /\ retryIn' = 0
    /\ trial' = IF isTrial THEN "failed" ELSE Pass(trial)
    /\ sinceTrialFailure' = IF isTrial /\ breaker.state = "HALF_OPEN"
                            THEN 0 ELSE sinceTrialFailure
    /\ failureAges' = Latest(Append(failureAges, 0))
    /\ failuresSince' = Min(failuresSince + 1, FailureThreshold)
    /\ UNCHANGED <<cache, inFlight, cooldownLeft, prod, callers, delivered>>
    /\ UNCHANGED <<engineVars, publishVars, evalVars>>

\* Date.now() advances by one unit.
Elapse ==
    /\ breaker' = BreakerTick(breaker)
    /\ lastCall' = "none"
    /\ retryIn' = 0
    /\ trial' = Pass(trial)
    /\ sinceTrialFailure' = Min(sinceTrialFailure + 1, RecoveryTimeout)
    /\ failureAges' = [i \in DOMAIN failureAges |-> Min(failureAges[i] + 1, WindowCap)]
    /\ UNCHANGED <<running, failuresSince>>
    /\ UNCHANGED <<cache, inFlight, cooldownLeft, prod, callers, delivered>>
    /\ UNCHANGED <<engineVars, publishVars, evalVars>>

InitBreaker == Init

NextBreaker ==
    \/ Execute
    \/ ExecuteRejected
    \/ \E isTrial \in BOOLEAN : OperationSucceeds(isTrial)
    \/ \E isTrial \in BOOLEAN : OperationFails(isTrial)
    \/ Elapse

SpecBreaker == InitBreaker /\ [][NextBreaker]_vars

\* ------------------------------------------------------------------------
\* Properties of the gateway
\* ------------------------------------------------------------------------
Fresh(k) == cache[k].present /\ cache[k].ttlLeft > 0

RunsFor(k) == {p \in Callers : prod[p].active /\ prod[p].key = k}

\* C1: at every moment at most one retry loop (upstream producer) is
\* outstanding per cache key, the key being the coordinates rounded to three
\* decimals.
C1_SingleFlight == \A k \in Keys : Cardinality(RunsFor(k)) <= 1

\* A second caller holds the promise of a loop that is still running.
C1_Witness ==
    \E p, c \in Callers :
        p # c /\ prod[p].active /\ callers[c].pc = "wait" /\ callers[c].joined = p

\* C2 as stated: the calls for a key that share one run (made concurrently,
\* or within the TTL) cause one upstream HTTP call in total, so no run is
\* ever past its first attempt.
C2_Original == \A p \in Callers : prod[p].active => prod[p].attempt <= 1

\* C2 amended: an upstream HTTP attempt is only ever made by the single
\* registered run of its key, while the key has no fresh cache entry, and a
\* run makes at most MaxAttempts attempts; so once a run has returned data
\* the calls within the TTL cause no upstream call at all.
C2_NoUpstreamWhileFresh ==
    \A p \in Callers :
        prod[p].active =>
            /\ ~Fresh(prod[p].key)
            /\ inFlight[prod[p].key] = p
            /\ prod[p].attempt \in 1..MaxAttempts

\* A call is answered from the fresh entry that an upstream success left.
C2_Witness ==
    \E c \in Callers :
        /\ delivered[c].via = "cache"
        /\ delivered[c].value.raw = "upstream"
        /\ \A p \in Callers : ~prod[p].active

\* C3: every caller that found the promise of a key in flight receives the
\* outcome of that promise, the same reading or the same error as the caller
\* that started it.
C3_SameOutcome ==
    [][\A p \in Callers :
          (prod[p].active /\ ~prod'[p].active) =>
              \A c \in Callers :
                  (callers[c].pc = "wait" /\ callers[c].joined = p) =>
                      /\ delivered'[c].kind # "none"
                      /\ delivered'[c].kind = delivered'[p].kind
                      /\ delivered'[c].value = delivered'[p].value
                      /\ delivered'[c].status = delivered'[p].status]_vars

\* A caller that joined is handed the error of the loop it joined.
C3_Witness ==
    \E p, c \in Callers :
        /\ p # c
        /\ delivered[p].kind = "http-error"
        /\ delivered[c].kind = "http-error"
        /\ delivered[c].status = delivered[p].status

\* C4 as stated: a call made while the gateway is rate limited does not fail.
C4_Original ==
    \A c \in Callers :
        (delivered[c].kind # "none" /\ delivered[c].limited) =>
            delivered[c].kind = "data"

\* C4 amended: no caller is handed a 429 error; a loop that ends on a 429
\* resolves with a synthetic reading, and so does a call made during the
\* cooldown that finds neither a fresh entry nor a promise in flight (a call
\* that joins a promise gets that promise's outcome, error included).
C4_NoRateLimitError ==
    \A c \in Callers :
        /\ delivered[c].kind = "http-error" => delivered[c].status # 429
        /\ (delivered[c].via = "loop" /\ delivered[c].status = 429) =>
              (delivered[c].kind = "data" /\ IsDemo(delivered[c].value))
        /\ (delivered[c].limited /\ delivered[c].via \notin {"cache", "loop"}) =>
              (delivered[c].kind = "data" /\ IsDemo(delivered[c].value))

\* A loop has used up its attempts on 429 responses and resolved.
C4_Witness ==
    \E c \in Callers : delivered[c].via = "loop" /\ delivered[c].status = 429

\* ------------------------------------------------------------------------
\* Properties of alert evaluation
\* ------------------------------------------------------------------------
\* The row carries its parameter as AlertRecord declares it.
Typed(a) == alertCfg[a].parameter \in TypedParameters

\* No weather handler is running and no evaluation event awaits its handler.
EventsQuiet ==
    /\ \A c \in Consumers : cons[c].pc = "idle"
    /\ evalTopic = <<>>

\* C5: on the event-driven path, once the handlers have finished, an alert
\* has had exactly one newly-triggered notification published for every
\* evaluation of a matching observation that found its lastState false or
\* null and whose value meets the alert's condition.
C5_RisingEvaluationNotifiesOnce ==
    EventsQuiet =>
        \A a \in Alerts : Typed(a) => notified[a].triggered = hist[a].due

\* C6: once a sweep has finished, an alert has had exactly one
\* newly-resolved notification for every evaluation that found its
\* lastState true and wrote false.
C6_FallingEvaluationNotifiesOnce ==
    sched.pc = "idle" =>
        \A a \in Alerts : notified[a].resolved = hist[a].falling

\* C7: the scheduler sends no notification for an alert whose evaluation
\* in this sweep wrote true over a lastState that was already true.
C7_NoNotificationWithoutChange ==
    [][\A a \in Alerts : sent'[a] # sent[a] => ~hist[a].repeated]_vars

ThresholdReached ==
    /\ Len(failureAges) = FailureThreshold
    /\ failureAges[1] <= MonitoringPeriod
    /\ FailureThreshold >= MinimumRequests

\* C10: as soon as a failure is recorded that is the failureThreshold-th
\* within monitoringPeriod, the breaker is OPEN.
C10_OpenAtThreshold ==
    (lastCall = "failed" /\ ThresholdReached) => breaker.state = "OPEN"

\* C11: while the breaker is OPEN and less than recoveryTimeout has passed
\* since the last failure, every execute call is rejected, the rejection names
\* the time lastFailureTime + recoveryTimeout, no operation is started, and the
\* breaker's state and counters stay as they were.
C11_RejectedWhileOpen ==
    [][(/\ breaker.state = "OPEN"
        /\ breaker.sinceLastFailure < RecoveryTimeout
        /\ lastCall' \in {"admitted", "rejected"})
       => (/\ lastCall' = "rejected"
           /\ running' = running
           /\ breaker' = breaker
           /\ retryIn' = RecoveryTimeout - breaker.sinceLastFailure)]_vars

C11_Witness ==
    /\ lastCall = "rejected"
    /\ breaker.state = "OPEN"
    /\ breaker.sinceLastFailure < RecoveryTimeout
    /\ retryIn > 0

\* C12: from OPEN, the first execute call made once recoveryTimeout has passed
\* since the last failure is let in and moves the breaker to HALF_OPEN before
\* its operation runs; when that operation succeeds the breaker is CLOSED with
\* failureCount and requestCount 0.
C12_TrialSuccessCloses ==
    [][/\ (/\ breaker.state = "OPEN"
            /\ breaker.sinceLastFailure >= RecoveryTimeout
            /\ lastCall' \in {"admitted", "rejected"})
           => (/\ lastCall' = "admitted"
               /\ trial' = "running"
               /\ breaker'.state = "HALF_OPEN")
       /\ (trial = "running" /\ trial' = "succeeded")
           => (/\ breaker'.state = "CLOSED"
               /\ breaker'.failureCount = 0
               /\ breaker'.requestCount = 0)]_vars

\* C13: while the breaker is HALF_OPEN and the trial call has not completed,
\* no other call is let through to its operation.
C13_SingleTrial ==
    [][(breaker.state = "HALF_OPEN" /\ trial = "running")
       => (lastCall' # "admitted" /\ running' <= running)]_vars

C15_DegradedWhenOpen ==
    [][\A c \in Callers :
          (/\ breaker.state = "OPEN"
           /\ breaker.sinceLastFailure < RecoveryTimeout
           /\ callers[c].pc = "idle"
           /\ delivered'[c].kind # "none")
          => delivered'[c].kind = "data"]_vars

Transient(status) == status = 429 \/ status \in 500..599

\* C16: within one call a further upstream attempt is made only after a
\* response with status 429 or 5xx; a failure of any other kind ends the loop
\* on the attempt where it occurs.
C16_OnlyTransientRetried ==
    [][\A p \in Callers :
          /\ (prod'[p].active /\ prod'[p].phase = "backoff")
                => Transient(prod'[p].status)
          /\ (prod[p].active /\ prod'[p].active /\ prod'[p].attempt # prod[p].attempt)
                => (/\ prod[p].phase = "backoff"
                    /\ Transient(prod[p].status)
                    /\ prod'[p].attempt = prod[p].attempt + 1)
          /\ (/\ prod[p].active /\ prod[p].phase = "http"
              /\ delivered'[p].kind = "http-error"
              /\ ~Transient(delivered'[p].status))
                => (~prod'[p].active /\ inFlight'[prod[p].key] = 0)]_vars

\* One loop is on a retry while another has thrown a 401 to its caller.
C16_Witness ==
    \E p, c \in Callers :
        /\ prod[p].active /\ prod[p].attempt >= 2
        /\ delivered[c].kind = "http-error" /\ delivered[c].status = 401

\* C17: an attempt that timed out (a failure without a status) is recorded as
\* a failure by the breaker and is retried with backoff, so it reaches the
\* caller only from the last attempt.
C17_TimeoutRetried ==
    [][\A p \in Callers :
          (/\ prod[p].active
           /\ delivered'[p].kind = "http-error"
           /\ delivered'[p].status = 0)
          => (/\ prod[p].attempt = MaxAttempts
              /\ breaker'.sinceLastFailure = 0)]_vars

\* C18 as stated: a loop that ends on a 429 resolves with a synthetic reading
\* and starts the cooldown, and every call made during the cooldown is
\* answered with a reading.
C18_Original ==
    [][\A c \in Callers :
          /\ (prod[c].active /\ delivered'[c].via = "loop" /\ delivered'[c].status = 429)
                => (/\ delivered'[c].kind = "data"
                    /\ IsDemo(delivered'[c].value)
                    /\ cooldownLeft' = CooldownPeriod)
          /\ (/\ callers[c].limited \/ (cooldownLeft > 0 /\ callers[c].pc = "idle")
              /\ delivered'[c].kind # "none")
                => delivered'[c].kind = "data"]_vars

\* C18 amended: a loop that ends on a 429 resolves with a synthetic reading
\* and starts the 60 s cooldown; a call made during the cooldown starts no
\* retry loop and does not reach the breaker: it is answered at once with a
\* fresh cache entry or a synthetic reading, or it joins the promise in flight
\* for its key (and then shares that promise's outcome, an error included).
C18_CooldownAnswers ==
    [][\A c \in Callers :
          /\ (prod[c].active /\ delivered'[c].via = "loop" /\ delivered'[c].status = 429)
                => (/\ delivered'[c].kind = "data"
                    /\ IsDemo(delivered'[c].value)
                    /\ cooldownLeft' = CooldownPeriod)
          /\ (cooldownLeft > 0 /\ callers[c].pc = "idle")
                => (/\ callers'[c].pc = "wait"
                          => (callers'[c].joined # c /\ prod' = prod /\ inFlight' = inFlight)
                    /\ delivered'[c].kind # "none"
                          => (/\ delivered'[c].kind = "data"
                              /\ delivered'[c].via \in {"cache", "cooldown"}
                              /\ delivered'[c].via = "cooldown" => IsDemo(delivered'[c].value)
                              /\ breaker' = breaker
                              /\ prod' = prod))]_vars

\* During the cooldown a call for a key without a fresh entry is answered
\* with a synthetic reading.
C18_Witness ==
    \E c \in Callers :
        /\ cooldownLeft > 0
        /\ delivered[c].via = "cooldown"
        /\ delivered[c].kind = "data"

\* C19: an upstream success leaves a fresh entry for its key; a call for a
\* key whose entry has not expired is answered with that entry's reading and
\* causes no upstream call (no loop is started or joined, nothing is written);
\* an entry whose time is up is never served.
C19_CachedUntilExpiry ==
    [][\A c \in Callers :
          /\ (prod[c].active /\ delivered'[c].via = "loop" /\ delivered'[c].status = 200)
                => (/\ cache'[prod[c].key].present
                    /\ cache'[prod[c].key].value = delivered'[c].value
                    /\ cache'[prod[c].key].ttlLeft = CacheTtl)
          /\ (callers[c].pc = "idle" /\ delivered'[c].kind # "none")
                => IF Fresh(delivered'[c].key)
                   THEN /\ delivered'[c].kind = "data"
                        /\ delivered'[c].via = "cache"
                        /\ delivered'[c].value = cache[delivered'[c].key].value
                        /\ UNCHANGED <<cache, inFlight, prod, breaker>>
                   ELSE delivered'[c].via # "cache"
          /\ (callers[c].pc = "idle" /\ callers'[c].pc = "wait")
                => ~Fresh(prod'[callers'[c].joined].key)]_vars

\* Some time after an upstream success its entry, not yet expired, answers a call.
C19_Witness ==
    \E c \in Callers :
        /\ delivered[c].via = "cache"
        /\ delivered[c].value.raw = "upstream"
        /\ Fresh(delivered[c].key)
        /\ cache[delivered[c].key].ttlLeft < CacheTtl

\* ------------------------------------------------------------------------
\* Properties of the event-driven provider
\* ------------------------------------------------------------------------
\* C20: a caller whose inner call returned a reading is returned that same
\* reading whether or not Kafka is connected, in the step that only starts
\* the publish (nothing is on the topic yet); and the step in which a started
\* publish succeeds or fails touches no caller.
C20_PublishNeverFailsCaller ==
    [][\A c \in Callers :
          /\ (request[c].pc = "resumed" /\ request[c].inner.kind = "data"
              /\ request'[c].pc = "idle")
                => (/\ handed'[c] = request[c].inner
                    /\ weatherTopic' = weatherTopic
                    /\ isConnected =>
                          publishing'[c] = WeatherEventOf(request[c].loc,
                                                          request[c].inner.value))
          /\ (publishing[c] # NoEvent /\ publishing'[c] = NoEvent)
                => (request' = request /\ handed' = NoneHanded)]_vars

\* A caller is returned its reading while Kafka is not connected.
C20_Witness ==
    \E c \in Callers :
        /\ handed[c].kind = "data"
        /\ ~isConnected
        /\ publishing[c] = NoEvent

\* ------------------------------------------------------------------------
\* Properties of evaluateAlertCondition
\* ------------------------------------------------------------------------
\* The field named by the parameter.
FieldOf(args) ==
    IF args.parameter = "TEMPERATURE" THEN args.values.temperatureC
    ELSE IF args.parameter = "WIND_SPEED" THEN args.values.windSpeedMps
    ELSE args.values.precipitationMmHr

\* The standard comparison, by the sign of value - threshold.
Holds(operator, difference) ==
    \/ difference > 0 /\ operator \in {"GT", "GTE", "NE"}
    \/ difference = 0 /\ operator \in {"GTE", "LTE", "EQ"}
    \/ difference < 0 /\ operator \in {"LT", "LTE", "NE"}

Reference(args) ==
    IF FieldOf(args) = NullNum
    THEN [currentValue |-> NullNum, triggered |-> FALSE]
    ELSE [currentValue |-> FieldOf(args),
          triggered |-> Holds(args.operator, FieldOf(args) - args.threshold)]

\* C21: for every parameter, operator, threshold and observation,
\* evaluateAlertCondition returns what the reference evaluator returns: the
\* field named by the parameter, null and not triggered when that field is
\* null, else triggered by the standard comparison with the threshold.
C21_AgreesWithReference ==
    evalPc # "start" => evalResult = Reference(evalArgs)

\* GT on a value equal to the threshold has been evaluated.
C21_Witness ==
    /\ evalPc # "start"
    /\ evalArgs.operator = "GT"
    /\ evalArgs.parameter = "TEMPERATURE"
    /\ evalArgs.values.temperatureC = evalArgs.threshold
    /\ evalResult = [currentValue |-> evalArgs.threshold, triggered |-> FALSE]

\* ------------------------------------------------------------------------
\* Properties of alert evaluation: absent values, matching, writes, failures
\* ------------------------------------------------------------------------
\* C22: an evaluation on an upstream observation that has no value for the
\* alert's parameter does not write lastState true and does not put the
\* alert among those to notify (here: on the scheduler path).
C22_AbsentNeverTriggers ==
    [][(sched.pc = "update" /\ sched.absent)
       => (/\ alertStore'[Head(sched.todo)].lastState # "true"
           /\ Len(sched'.triggeredAlerts) <= Len(sched.triggeredAlerts))]_vars

\* The row has both coordinates and each is within the tolerance (0.01
\* degree) of the observation's.
Nearby(row, at) ==
    /\ row.latitude # NullNum
    /\ row.longitude # NullNum
    /\ row.latitude - at.latitude \in -100..100
    /\ row.longitude - at.longitude \in -100..100

\* C23: the matcher returns exactly the alerts that have a location and
\* whose latitude and longitude are each within the tolerance of the
\* observation's; an alert without a location is never returned.
C23_MatchesExactlyNearby ==
    matchPc = "done" => matched = {a \in Alerts : Nearby(matchRows[a], matchAt)}

\* C24: when an observation is handled, a write of lastValue, lastState and
\* lastEvaluatedAt is issued for every alert the matcher returns for it,
\* whether or not the observation has a value for the alert's parameter.
C24_EveryMatchWritten ==
    [][(weatherTopic # <<>> /\ weatherTopic' = Tail(weatherTopic))
       => \A a \in Alerts :
             IsRelevant(alertCfg[a], Head(weatherTopic))
             => \E c \in Consumers :
                   /\ cons[c].pc = "idle"
                   /\ cons'[c].pc = "evaluating"
                   /\ cons'[c].tasks[a].st = "updating"]_vars

\* C25: in the fan-out of one observation, when the evaluation of one
\* matched alert ends (its write or its publish having failed, or not), the
\* evaluation of every other matched alert of that observation goes on
\* unchanged, its write still to come, and the handler keeps running.
C25_FanOutIsolated ==
    [][\A c \in Consumers : \A a, b \in Alerts :
          (/\ a # b
           /\ cons[c].pc = "evaluating"
           /\ cons[c].tasks[a].st = "updating"
           /\ cons[c].tasks[b].st = "updating"
           /\ cons'[c].tasks[a].st # "updating")
          => (/\ cons'[c].pc = "evaluating"
              /\ cons'[c].msg = cons[c].msg
              /\ cons'[c].tasks[b] = cons[c].tasks[b])]_vars

\* One evaluation of a fan-out has failed and another is still to write.
C25_Witness ==
    \E c \in Consumers : \E a, b \in Alerts :
        /\ cons[c].pc = "evaluating"
        /\ cons[c].tasks[a].st = "rejected"
        /\ cons[c].tasks[b].st = "updating"

\* C26: a sweep ends in the middle of its rows only when no row remains to
\* be evaluated and no alert found triggered remains to be notified, whether
\* or not the weather fetch or the write of the current row failed.
C26_SweepIsolated ==
    [][(sched.pc \in {"weather", "update"} /\ sched'.pc = "idle")
       => (/\ SkipNoCoordinates(Tail(sched.todo)) = <<>>
           /\ sched.triggeredAlerts = <<>>)]_vars

\* C27: the newly-triggered notifications of an alert go out once on each
\* channel the alert has, to the alert's own address (email to contactEmail,
\* SMS to contactPhone), and not on a channel it lacks (here: on the
\* event-driven path).
C27_OnePerConfiguredChannel ==
    \A a \in Alerts :
        /\ notified[a].toEmail = IF alertCfg[a].contactEmail
                                 THEN notified[a].triggered ELSE 0
        /\ notified[a].toPhone = IF alertCfg[a].contactPhone
                                 THEN notified[a].triggered ELSE 0

\* What a consumer reads as the degraded marker of a published event: the
\* field, false when the event has none.
DegradedOf(weatherEvent) ==
    IF "degraded" \in DOMAIN weatherEvent THEN weatherEvent.degraded ELSE FALSE

\* C28: an observation handed to a consumer is marked degraded exactly when
\* it was synthesized: the reading getRealtime returns by what raw says,
\* the event it publishes by its degraded marker.
C28_DegradedMarked ==
    [][\A c \in Callers :
         (request[c].pc = "resumed" /\ request[c].inner.kind = "data"
              /\ request'[c].pc = "idle")
           => /\ IsDemo(handed'[c].value) = IsDemo(request[c].inner.value)
              /\ publishing'[c] # NoEvent
                   => DegradedOf(publishing'[c]) = IsDemo(request[c].inner.value)]_vars

\* The three columns the post-evaluation write owns.
EvaluationColumns(row) == <<row.lastState, row.lastValue, row.lastEvaluatedAt>>

\* C29: lastState, lastValue and lastEvaluatedAt of a stored alert change
\* only in a step of updateAlertAfterEvaluation on that alert; creating,
\* paginating, listing and reading leave them alone, and a row that is
\* created has all three null.
C29_OnlyEvaluationWrites ==
    [][\A i \in DOMAIN table', id \in Alerts :
          table'[i].id = id =>
            IF id \in Stored(table)
            THEN (\E j \in DOMAIN table :
                     /\ table[j].id = id
                     /\ EvaluationColumns(table[j]) # EvaluationColumns(table'[i]))
                 => (response'.op = "update" /\ response'.id = id)
            ELSE /\ response'.op = "create"
                 /\ EvaluationColumns(table'[i]) = <<"null", NullNum, 0>>]_vars

\* An evaluated alert has been shown by GET /state, by GET / or to the sweep.
C29_Witness ==
    /\ response.op \in {"state", "page", "all"}
    /\ response.status # 400
    /\ \E i \in DOMAIN table : table[i].lastState = "true"
    /\ \E i \in DOMAIN table : table[i].lastState = "null"

C31_CallsTerminate ==
    /\ [](\A p \in Callers : prod[p].attempt <= MaxAttempts)
    /\ \A c \in Callers : (callers[c].pc = "wait") ~> (callers[c].pc = "idle")

\* A loop is on its fourth attempt while another caller waits on its promise.
C31_Witness ==
    \E p \in Callers, c \in Callers :
        /\ c # p
        /\ prod[p].active /\ prod[p].attempt = MaxAttempts /\ prod[p].phase = "http"
        /\ callers[c].pc = "wait" /\ callers[c].joined = p

\* C32: a synthetic reading is cached for a shorter time than a reading of
\* the upstream: the time left of a cache entry that holds a synthetic
\* reading is always below the TTL an upstream reading is cached with.
C32_SyntheticCachedBriefly ==
    \A k \in Keys :
        (cache[k].present /\ IsDemo(cache[k].value)) => cache[k].ttlLeft < CacheTtl

Outstanding(k) == \E p \in Callers : prod[p].active /\ prod[p].key = k

\* C34: a key is registered in inFlight exactly while a retry loop for it is
\* outstanding, under the caller that started it; and when a call ends with
\* an error, thrown by the loop or by the open breaker, the key is neither
\* registered nor freshly cached afterwards, so that the next call for it
\* is not answered by what failed.
C34_MarkerWhileOutstanding ==
    /\ [](\A k \in Keys :
            /\ (inFlight[k] # 0) <=> Outstanding(k)
            /\ inFlight[k] # 0 =>
                  (prod[inFlight[k]].active /\ prod[inFlight[k]].key = k))
    /\ [][\A c \in Callers :
            delivered'[c].kind \in {"http-error", "circuit-open"}
              => /\ inFlight'[delivered'[c].key] = 0
                 /\ ~(/\ cache'[delivered'[c].key].present
                       /\ cache'[delivered'[c].key].ttlLeft > 0)]_vars

\* A retry loop has just thrown with the breaker open, and its key is no
\* longer registered.
C34_Witness ==
    \E c \in Callers :
        /\ delivered[c].kind = "http-error"
        /\ breaker.state = "OPEN"
        /\ inFlight[delivered[c].key] = 0

\* C35: the breaker goes from CLOSED to OPEN only on a failure that is at
\* least the failureThreshold-th recorded since the last success, the latest
\* failureThreshold of them recorded since the current window started.
C35_NotTrippedByIsolatedErrors ==
    [][(breaker.state = "CLOSED" /\ breaker'.state = "OPEN")
       => (/\ lastCall' = "failed"
           /\ failuresSince' >= FailureThreshold
           /\ Len(failureAges') = FailureThreshold
           /\ \A i \in DOMAIN failureAges' :
                 failureAges'[i] <= breaker'.sinceWindowStart)]_vars

\* The breaker has just opened from CLOSED, some time into its window.
C35_Witness ==
    /\ breaker.state = "OPEN"
    /\ lastCall = "failed"
    /\ trial = "none"
    /\ failuresSince = FailureThreshold
    /\ breaker.sinceWindowStart > 0

\* C36: the state of the gateway's breaker changes only with a call that
\* goes through its execute, when the call is let in or when its operation
\* settles, apart from the passing of time.
C36_BreakerChangedOnlyByCalls ==
    [][breaker' # breaker
       => (\/ \E p \in Callers : prod'[p].active # prod[p].active
           \/ breaker' = BreakerTick(breaker))]_vars

\* C37: the event-driven path evaluates a stored alert as the sweep does: when
\* a handler takes a weather event, every alert the event is relevant to is
\* on its way to the store with the currentValue and triggered that the
\* sweep's evaluation gives for the same row and the same values.
C37_PathsAgree ==
    [][(weatherTopic # <<>> /\ weatherTopic' = Tail(weatherTopic))
       => \A a \in Alerts :
            IsRelevant(alertCfg[a], Head(weatherTopic))
              => \E c \in Consumers :
                   /\ cons[c].pc = "idle"
                   /\ cons'[c].pc = "evaluating"
                   /\ cons'[c].tasks[a].st = "updating"
                   /\ cons'[c].tasks[a].currentValue =
                        EvaluateWithReading(alertCfg[a], Head(weatherTopic)).currentValue
                   /\ cons'[c].tasks[a].triggered =
                        EvaluateWithReading(alertCfg[a], Head(weatherTopic)).triggered]_vars

\* C38: however the calls interleave, the breaker goes from HALF_OPEN to
\* CLOSED only in the step in which the trial call, the one that moved it to
\* HALF_OPEN, succeeds.
C38_OnlyTrialCloses ==
    [][(breaker.state = "HALF_OPEN" /\ breaker'.state = "CLOSED")
       => (trial = "running" /\ trial' = "succeeded")]_vars

\* C39: rate limiting alone never opens the breaker.  A retry loop that ends
\* on a 429 and returns a synthetic reading leaves the breaker with its
\* counters reset and not HALF_OPEN, as a success does; the breaker changes
\* only when a call is let in or its loop ends, not with the attempts in
\* between; and the breaker opens only in a step that hands out an error of
\* another status than 429.
C39_RateLimitIsNoFailure ==
    [][/\ \A p \in Callers :
            (/\ prod[p].active /\ ~prod'[p].active
             /\ delivered'[p].kind = "data" /\ delivered'[p].status = 429)
              => (/\ IsDemo(delivered'[p].value)
                  /\ breaker'.failureCount = 0
                  /\ breaker'.requestCount = 0
                  /\ breaker'.sinceWindowStart = 0
                  /\ breaker'.sinceLastFailure = breaker.sinceLastFailure
                  /\ breaker'.state =
                        IF breaker.state = "OPEN" THEN "OPEN" ELSE "CLOSED")
       /\ (\A p \in Callers : prod'[p].active = prod[p].active)
            => (breaker' = breaker \/ breaker' = BreakerTick(breaker))
       /\ (breaker.state # "OPEN" /\ breaker'.state = "OPEN")
            => \E c \in Callers :
                 /\ delivered'[c].kind = "http-error"
                 /\ delivered'[c].status # 429]_vars

\* A loop has just ended on a 429 with a synthetic reading, right after a
\* failure of another loop: the counters are back at 0.
C39_Witness ==
    \E c \in Callers :
        /\ delivered[c].kind = "data"
        /\ delivered[c].status = 429
        /\ delivered[c].via = "loop"
        /\ breaker.sinceLastFailure = 0
        /\ breaker.failureCount = 0
        /\ breaker.state = "CLOSED"

\* C40: while the cooldown is on (now < rateLimitResetTime) no HTTP attempt
\* is issued for any key, neither the first attempt of a new loop nor the
\* next attempt of a loop that was backing off.
C40_NoAttemptDuringCooldown ==
    [][\A p \in Callers :
          (\/ ~prod[p].active /\ prod'[p].active
           \/ prod[p].phase = "backoff" /\ prod'[p].phase = "http")
            => ~RateLimited]_vars

====
